---- MODULE Spec2Model ----
(***************************************************************************)
(* SCMP - Semantic Clustered Memory Protocol v2.1.0.                       *)
(* The tiered memory engine (class SCMP) over its two ANN indexes and its  *)
(* IndexedDB stores.  Spec interleaves whole public operations one at a    *)
(* time; SpecConc interleaves the write path and search at await points.   *)
(*                                                                         *)
(* Scalars are in permille (importance 0.5 = 500, similarity 1.0 = 1000).  *)
(* Time is counted in epochs of 33 days.  An embedding is the text it      *)
(* encodes together with the precision it has been stored at.              *)
(***************************************************************************)
EXTENDS Integers, Sequences, FiniteSets, TLC

\* ------------------------------------------------------------------------
\* Bounds of the model
\* ------------------------------------------------------------------------
MaxRecords == 2
MaxEpoch == 1
MaxNodes == 3
MaxTasks == 2
MaxDeletions == 3
\* consolidation passes are modelled while the journal has fewer entries than this
MaxJournal == 3
\* calls that can be in progress at once where callers wait for locks
MaxCallers == 3
MaxAttempts == 4
\* records and index nodes where consolidation runs over records of one text
MaxClusterRecords == 3
MaxClusterNodes == 4

\* ------------------------------------------------------------------------
\* Configuration (SCMP constructor) and fixed quantities
\* ------------------------------------------------------------------------
U_hot == 3
I_hot == 800
D_warm == 100
epsilon == 10
demotionUsageThreshold == 2
journalRotationSize == 10000
mutationBatchSize == 10
compactionThreshold == 2
coldSearchChunkSize == 1000
consolidationInterval == 2
consolidationChunkSize == 500
embedDim == 768
MAX_RETRIES == 3
RETRY_DELAY_MS == 1000

NULL == 0
Texts == {1, 2}
TamperedText == 9
\* the sentence the generator returns for a cluster
SummaryText == 3
\* the inputs of createMemoryRecord: a text with default importance, another with high importance
CreateInputs == {[text |-> 1, importance |-> 500], [text |-> 2, importance |-> 900]}
BatchTexts == <<1, 2>>
\* the inputs of the maintenance runs: also the second text with default importance,
\* and searches for one or two results
MaintInputs == CreateInputs \cup {[text |-> 2, importance |-> 500]}
MaintKs == {1, 2}
Ks == {1}
CrossSimilarity == 800

Max2(a, b) == IF a >= b THEN a ELSE b
Min2(a, b) == IF a <= b THEN a ELSE b

\* ------------------------------------------------------------------------
\* Codec
\* ------------------------------------------------------------------------
\* a vector is the text it encodes, the precision left by the conversions it
\* went through, and its number of components
embed(text) == [t |-> text, prec |-> "f32", len |-> embedDim]

quantizeFloat16(vec) ==
    [t |-> vec.t, prec |-> IF vec.prec = "i8" THEN "i8" ELSE "f16", len |-> vec.len]

dequantizeFloat16(packed) == [t |-> packed.t, prec |-> packed.prec, len |-> packed.len]

quantizeInt8(vec) == [t |-> vec.t, prec |-> "i8", len |-> vec.len]

dequantizeInt8(packed) == [t |-> packed.t, prec |-> packed.prec, len |-> packed.len]

cosineSimilarity(a, b) == IF a.t = b.t THEN 1000 ELSE CrossSimilarity

\* sha256(text + salt): injective in the text for the fixed salt
hash(text) == 1000 + text

\* ------------------------------------------------------------------------
\* MemoryRecord
\* ------------------------------------------------------------------------
\* the metadata of a record that is not a cluster summary
NoMetadata == [cluster_id |-> NULL, member_count |-> 0]

MemoryRecord(id, embedding, text, timestamp, episodic, importance, integrity_hash, currentTier) ==
    [id |-> id, embedding |-> embedding, text |-> text, timestamp |-> timestamp,
     episodic |-> episodic, importance |-> Max2(0, Min2(1000, importance)),
     lastAccessed |-> timestamp, usage_count |-> 0, semantic_cluster_id |-> NULL,
     integrity_hash |-> integrity_hash, currentTier |-> currentTier,
     metadata |-> NoMetadata, hnswHotId |-> NULL, hnswWarmId |-> NULL]

toJSON(r) == [f \in (DOMAIN r) \ {"embedding"} |-> r[f]]

\* a stored or indexed object read back as a MemoryRecord with the given embedding and tier
FromMeta(m, embedding, tier) ==
    [f \in (DOMAIN m) \cup {"embedding"} |->
        IF f = "embedding" THEN embedding
        ELSE IF f = "currentTier" THEN tier
        ELSE m[f]]

decay_score(r, t) ==
    LET age == t - r.timestamp IN
    IF age <= 0 THEN 1000 ELSE IF age = 1 THEN 94 ELSE 8

temporal_weight(r, t) ==
    LET age == t - r.timestamp IN
    IF age <= 0 THEN 1000 ELSE IF age = 1 THEN 175 ELSE 95

effective_weight(r, t) == (r.importance * decay_score(r, t) * temporal_weight(r, t)) \div 1000000

\* ------------------------------------------------------------------------
\* IndexedDBStore: a store is a function from its keys to its objects
\* ------------------------------------------------------------------------
EmptyStore == [i \in {} |-> 0]

StorePut(store, key, obj) ==
    [i \in (DOMAIN store) \cup {key} |-> IF i = key THEN obj ELSE store[i]]

StoreDelete(store, key) == [i \in (DOMAIN store) \ {key} |-> store[i]]

StoreHas(store, key) == key \in DOMAIN store

StoreCount(store) == Cardinality(DOMAIN store)

\* ------------------------------------------------------------------------
\* ANN index (EdgeVec): a sequence of nodes, the handle of a node is its position
\* ------------------------------------------------------------------------
EmptyIndex == << >>

insertWithMetadata(index, vec, metadata) ==
    Append(index, [vec |-> vec, metadata |-> metadata, deleted |-> FALSE])

softDelete(index, handle) ==
    IF handle \in 1..Len(index) THEN [index EXCEPT ![handle].deleted = TRUE] ELSE index

\* a node that compaction has physically removed; its handle is not reused
Tombstone == [vec |-> [t |-> 0, prec |-> "none", len |-> 0], metadata |-> [id |-> 0], deleted |-> TRUE]

updateMetadata(index, handle, metadata) ==
    IF handle \in 1..Len(index) /\ index[handle] # Tombstone
    THEN [index EXCEPT ![handle].metadata = metadata] ELSE index

compact(index) == [h \in 1..Len(index) |-> IF index[h].deleted THEN Tombstone ELSE index[h]]

LiveHandles(index) == {h \in 1..Len(index) : ~index[h].deleted}

\* h1 is returned before h2: higher similarity first, then insertion order
Before(index, queryVec, h1, h2) ==
    LET s1 == cosineSimilarity(queryVec, index[h1].vec)
        s2 == cosineSimilarity(queryVec, index[h2].vec)
    IN s1 > s2 \/ (s1 = s2 /\ h1 < h2)

RECURSIVE RankedHandles(_, _, _)
RankedHandles(index, queryVec, handles) ==
    IF handles = {} THEN << >>
    ELSE LET best == CHOOSE h \in handles : \A g \in handles \ {h} : Before(index, queryVec, h, g)
         IN <<best>> \o RankedHandles(index, queryVec, handles \ {best})

Take(seq, n) == SubSeq(seq, 1, Min2(Len(seq), Max2(n, 0)))

NoEmbedding == [t |-> 0, prec |-> "none", len |-> 0]

\* results carry metadata and score, and no embedding (the index is quantized)
searchBQ(index, queryVec, n) ==
    LET ranked == Take(RankedHandles(index, queryVec, LiveHandles(index)), n)
    IN [i \in 1..Len(ranked) |->
          [metadata |-> index[ranked[i]].metadata,
           score |-> cosineSimilarity(queryVec, index[ranked[i]].vec),
           embedding |-> NoEmbedding]]

RECURSIVE LiveMetadataFrom(_, _)
LiveMetadataFrom(index, h) ==
    IF h > Len(index) THEN << >>
    ELSE (IF index[h].deleted THEN << >> ELSE <<index[h].metadata>>) \o LiveMetadataFrom(index, h + 1)

getAllMetadata(index) == LiveMetadataFrom(index, 1)

\* ------------------------------------------------------------------------
\* State
\* ------------------------------------------------------------------------
VARIABLES
    hnswHot, hnswWarm,              \* the in-memory ANN indexes
    savedHot, savedWarm,            \* the indexes as last persisted by save()
    warmStore, coldStore,           \* IndexedDB stores keyed by record id
    journalStore,                   \* IndexedDB store keyed by journal id
    metaCounter,                    \* meta store entry journal_counter
    initialized, journalCounter,
    recordsSinceConsolidation, deletionsSinceCompaction, mutationsSinceLastSave,
    locks,
    scheduled,                      \* callbacks enqueued with setImmediate
    now, nextId,                    \* the clock (epochs) and the next fresh record id
    issued, clearedAt,              \* journal ids in the order they were put; position of the last clear()
    lastOp,                         \* the operation that completed last, with its result
    tasks                           \* in-flight asynchronous calls (SpecConc)

vars == <<hnswHot, hnswWarm, savedHot, savedWarm, warmStore, coldStore, journalStore,
          metaCounter, initialized, journalCounter, recordsSinceConsolidation,
          deletionsSinceCompaction, mutationsSinceLastSave, locks, scheduled, now, nextId,
          issued, clearedAt, lastOp, tasks>>

\* the part of the state the engine's methods read and write
Eng ==
    [hot |-> hnswHot, warm |-> hnswWarm, ws |-> warmStore, cs |-> coldStore,
     js |-> journalStore, mc |-> metaCounter, jc |-> journalCounter,
     rsc |-> recordsSinceConsolidation, dsc |-> deletionsSinceCompaction,
     msl |-> mutationsSinceLastSave, sched |-> scheduled, issued |-> issued,
     savedHot |-> savedHot, savedWarm |-> savedWarm]

Commit(e) ==
    /\ hnswHot' = e.hot
    /\ hnswWarm' = e.warm
    /\ warmStore' = e.ws
    /\ coldStore' = e.cs
    /\ journalStore' = e.js
    /\ metaCounter' = e.mc
    /\ journalCounter' = e.jc
    /\ recordsSinceConsolidation' = e.rsc
    /\ deletionsSinceCompaction' = e.dsc
    /\ mutationsSinceLastSave' = e.msl
    /\ scheduled' = e.sched
    /\ issued' = e.issued
    /\ savedHot' = e.savedHot
    /\ savedWarm' = e.savedWarm

\* MemoryRecord.access: reads the clock
access(r, simulate) ==
    IF simulate THEN r ELSE [r EXCEPT !.usage_count = @ + 1, !.lastAccessed = now]

\* ------------------------------------------------------------------------
\* Journal
\* ------------------------------------------------------------------------
\* _incrementJournalCounter up to its await: bump the counter and put it to the meta store
incrementJournalCounter(e) == [e EXCEPT !.jc = e.jc + 1, !.mc = e.jc + 1]

\* _incrementJournalCounter after its await (the id is the counter as it is
\* then), and the put of the entry
journalPut(e, r) ==
    LET journalId == e.jc
    IN [e EXCEPT !.js = StorePut(e.js, journalId, [id |-> journalId, record |-> toJSON(r)]),
                 !.issued = Append(e.issued, journalId)]

journalCountCheck(e) ==
    IF StoreCount(e.js) >= journalRotationSize
    THEN [e EXCEPT !.sched = e.sched \cup {"rotateJournal"}]
    ELSE e

appendJournal(e, r) == journalCountCheck(journalPut(incrementJournalCounter(e), r))

rotateJournal(e) ==
    IF StoreCount(e.js) < journalRotationSize THEN e ELSE [e EXCEPT !.js = EmptyStore]

\* ------------------------------------------------------------------------
\* Tier storage
\* ------------------------------------------------------------------------
\* storeWarm without the insert into the WARM index
storeWarm_SkipIndex(e, r) ==
    LET warmRecord == FromMeta(toJSON(r), quantizeFloat16(r.embedding), r.currentTier)
    IN [e |-> [e EXCEPT !.ws = StorePut(e.ws, r.id, warmRecord)], r |-> r]

\* both results are a pair: the engine and the record object as the call leaves it
storeWarm(e, r) ==
    LET float16 == quantizeFloat16(r.embedding)
        warm2 == insertWithMetadata(e.warm, r.embedding, toJSON(r))
        r2 == [r EXCEPT !.hnswWarmId = Len(warm2)]
        warmRecord == FromMeta(toJSON(r2), float16, r2.currentTier)
    IN [e |-> [e EXCEPT !.warm = warm2, !.ws = StorePut(e.ws, r.id, warmRecord)], r |-> r2]

storeCold(e, r) ==
    LET coldRecord == FromMeta(toJSON(r), quantizeInt8(r.embedding), r.currentTier)
    IN [e |-> [e EXCEPT !.cs = StorePut(e.cs, r.id, coldRecord)], r |-> r]

trackMutation(e) ==
    LET n == e.msl + 1
    IN [e EXCEPT !.msl = n,
                 !.sched = IF n >= mutationBatchSize THEN e.sched \cup {"save"} ELSE e.sched]

\* ------------------------------------------------------------------------
\* Promotion and demotion
\* ------------------------------------------------------------------------
shouldPromote(r) == effective_weight(r, now) >= I_hot \/ r.usage_count >= U_hot

shouldDemote(r) == decay_score(r, now) < D_warm /\ r.usage_count < demotionUsageThreshold

\* results: the engine, the record object, and the tier returned (NULL for null)
applyPromotion(e, r, simulate) ==
    IF ~shouldPromote(r) THEN [e |-> e, r |-> r, tier |-> "null"]
    ELSE IF simulate THEN [e |-> e, r |-> r, tier |-> "HOT"]
    ELSE
      LET ws2 == IF StoreHas(e.ws, r.id) THEN StoreDelete(e.ws, r.id) ELSE e.ws
          cs2 == IF StoreHas(e.cs, r.id) THEN StoreDelete(e.cs, r.id) ELSE e.cs
          hot2 == insertWithMetadata(e.hot, r.embedding, toJSON(r))
          warm2 == IF r.hnswWarmId # NULL THEN softDelete(e.warm, r.hnswWarmId) ELSE e.warm
      IN [e |-> [e EXCEPT !.ws = ws2, !.cs = cs2, !.hot = hot2, !.warm = warm2],
          r |-> [r EXCEPT !.hnswHotId = Len(hot2), !.currentTier = "HOT"],
          tier |-> "HOT"]

\* the result of a demotion whose storeWarm returned sw
demotedTo(sw) == [e |-> sw.e, r |-> [sw.r EXCEPT !.currentTier = "WARM"], tier |-> "WARM"]

\* a demotion that archives the record in the COLD store
applyDemotion_ToCold(e, r, simulate) ==
    IF ~shouldDemote(r) THEN [e |-> e, r |-> r, tier |-> "null"]
    ELSE IF simulate THEN [e |-> e, r |-> r, tier |-> "COLD"]
    ELSE
      demotedTo(storeCold([e EXCEPT !.hot = IF r.hnswHotId # NULL
                                            THEN softDelete(e.hot, r.hnswHotId)
                                            ELSE e.hot], r))

applyDemotion(e, r, simulate) ==
    IF ~shouldDemote(r) THEN [e |-> e, r |-> r, tier |-> "null"]
    ELSE IF simulate THEN [e |-> e, r |-> r, tier |-> "WARM"]
    ELSE
      demotedTo(storeWarm([e EXCEPT !.hot = IF r.hnswHotId # NULL
                                            THEN softDelete(e.hot, r.hnswHotId)
                                            ELSE e.hot], r))

\* "if (promoted) return promoted": the first outcome unless its tier is null
returnedOr(outcome, otherwise) == IF outcome.tier # "null" THEN outcome ELSE otherwise

determineSimulatedTier(e, r, simulate) ==
    returnedOr(applyPromotion(e, r, simulate),
      returnedOr(applyDemotion(e, r, simulate),
        [e |-> e, r |-> r,
         tier |-> IF simulate THEN r.currentTier
                  ELSE IF StoreHas(e.ws, r.id) THEN "WARM"
                  ELSE IF StoreHas(e.cs, r.id) THEN "COLD"
                  ELSE "UNKNOWN"]))

\* ------------------------------------------------------------------------
\* Search
\* ------------------------------------------------------------------------
\* the embedding, or NoEmbedding where the method throws
\* a reconstruction that answers an empty vector where it should throw
reconstructEmbedding_NoThrow(e, recordId, tier) ==
    IF tier = "WARM" /\ StoreHas(e.ws, recordId) THEN dequantizeFloat16(e.ws[recordId].embedding)
    ELSE IF tier = "COLD" /\ StoreHas(e.cs, recordId) THEN dequantizeInt8(e.cs[recordId].embedding)
    ELSE [t |-> 0, prec |-> "f32", len |-> embedDim]

reconstructEmbedding(e, recordId, tier) ==
    IF tier = "WARM" /\ StoreHas(e.ws, recordId) THEN dequantizeFloat16(e.ws[recordId].embedding)
    ELSE IF tier = "COLD" /\ StoreHas(e.cs, recordId) THEN dequantizeInt8(e.cs[recordId].embedding)
    ELSE NoEmbedding

\* stable sort by descending score
RECURSIVE SortByScore(_)
SortByScore(seq) ==
    IF seq = << >> THEN << >>
    ELSE LET i == CHOOSE j \in 1..Len(seq) :
                    /\ \A m \in 1..Len(seq) : seq[m].score <= seq[j].score
                    /\ \A m \in 1..(j - 1) : seq[m].score < seq[j].score
         IN <<seq[i]>> \o SortByScore(SubSeq(seq, 1, i - 1) \o SubSeq(seq, i + 1, Len(seq)))

RECURSIVE KeysAscending(_)
KeysAscending(keys) ==
    IF keys = {} THEN << >>
    ELSE LET k == CHOOSE x \in keys : \A y \in keys : x <= y
         IN <<k>> \o KeysAscending(keys \ {k})

getAll(store) == LET ks == KeysAscending(DOMAIN store) IN [i \in 1..Len(ks) |-> store[ks[i]]]

coldScored(r, queryVec, simulate) ==
    LET record == access(FromMeta(toJSON(r), dequantizeInt8(r.embedding), "COLD"), simulate)
        similarity == cosineSimilarity(queryVec, record.embedding)
    IN [metadata |-> toJSON(record),
        score |-> (similarity * effective_weight(record, now)) \div 1000,
        embedding |-> record.embedding]

RECURSIVE coldScanFrom(_, _, _, _, _, _)
coldScanFrom(allRecords, i, scored, queryVec, limit, simulate) ==
    IF i > Len(allRecords) THEN Take(SortByScore(scored), limit)
    ELSE
      LET last == Min2(i + coldSearchChunkSize - 1, Len(allRecords))
          chunk == [j \in 1..(last - i + 1) |-> coldScored(allRecords[i + j - 1], queryVec, simulate)]
          scored2 == scored \o chunk
      IN IF Len(scored2) >= limit * 5 THEN Take(SortByScore(scored2), limit)
         ELSE coldScanFrom(allRecords, last + 1, scored2, queryVec, limit, simulate)

chunkedColdSearch(e, queryVec, limit, simulate) ==
    coldScanFrom(getAll(e.cs), 1, << >>, queryVec, limit, simulate)

\* the candidates of a search: HOT, then WARM for the remainder, then the COLD scan
warmCandidates(e, results, queryVec, limit) ==
    IF Len(results) < limit
    THEN results \o searchBQ(e.warm, queryVec, limit - Len(results))
    ELSE results

coldCandidates(e, results, queryVec, limit, simulate) ==
    IF Len(results) < limit
    THEN results \o chunkedColdSearch(e, queryVec, limit - Len(results), simulate)
    ELSE results

candidates(e, queryVec, k, simulate) ==
    coldCandidates(e, warmCandidates(e, searchBQ(e.hot, queryVec, k * 2), queryVec, k * 2),
                   queryVec, k * 2, simulate)

updateRecord(e, recordData) ==
    LET meta == [toJSON(recordData) EXCEPT !.currentTier = "NONE"]
        merged(stored) == [f \in DOMAIN stored |->
                             IF f \in {"embedding", "currentTier"} THEN stored[f] ELSE meta[f]]
    IN IF recordData.hnswHotId # NULL
         THEN [e EXCEPT !.hot = updateMetadata(e.hot, recordData.hnswHotId, meta)]
       ELSE IF recordData.hnswWarmId # NULL
         THEN [e EXCEPT !.warm = updateMetadata(e.warm, recordData.hnswWarmId, meta)]
       ELSE IF StoreHas(e.ws, recordData.id)
         THEN [e EXCEPT !.ws = StorePut(e.ws, recordData.id, merged(e.ws[recordData.id]))]
       ELSE IF StoreHas(e.cs, recordData.id)
         THEN [e EXCEPT !.cs = StorePut(e.cs, recordData.id, merged(e.cs[recordData.id]))]
       ELSE e

\* filters.episodic and the metadata key count only when given; member_count
\* stands for a metadata key of the caller's choice
NoFilters ==
    [hasEpisodic |-> FALSE, episodic |-> FALSE, minImportance |-> 0,
     hasKey |-> FALSE, member_count |-> 0]

passesFilters(record, filters) ==
    /\ (~filters.hasEpisodic \/ record.episodic = filters.episodic)
    /\ (filters.minImportance = 0 \/ record.importance >= filters.minImportance)

\* the entry pushed for candidate res once its tier outcome d is known
rescoredEntry(acc, res, d, filters) ==
    [e |-> d.e,
     rescored |-> IF passesFilters(d.r, filters)
                  THEN Append(acc.rescored,
                              [record |-> toJSON(d.r),
                               score |-> (res.score * effective_weight(d.r, now)) \div 1000,
                               simulatedTier |-> d.tier,
                               similarity |-> res.score])
                  ELSE acc.rescored,
     failed |-> FALSE]

\* one iteration of the rescoring loop, given the candidate's embedding
rescoreResult(acc, res, embedding, simulate, filters) ==
    IF embedding = NoEmbedding THEN [acc EXCEPT !.failed = TRUE]
    ELSE rescoredEntry(acc, res,
                       determineSimulatedTier(acc.e,
                           access(FromMeta(res.metadata, embedding,
                                           IF res.metadata.currentTier = "NONE" THEN "HOT"
                                           ELSE res.metadata.currentTier),
                                  simulate),
                           simulate),
                       filters)

\* the rescoring loop of search from candidate i on; acc.failed when a step threw
RECURSIVE rescoreFrom(_, _, _, _, _)
rescoreFrom(results, i, acc, simulate, filters) ==
    IF i > Len(results) \/ acc.failed THEN acc
    ELSE rescoreFrom(results, i + 1,
                     rescoreResult(acc, results[i],
                                   IF results[i].embedding = NoEmbedding
                                   THEN reconstructEmbedding(acc.e, results[i].metadata.id,
                                                             results[i].metadata.currentTier)
                                   ELSE results[i].embedding,
                                   simulate, filters),
                     simulate, filters)

RECURSIVE updateAll(_, _, _)
updateAll(e, entries, i) ==
    IF i > Len(entries) THEN e
    ELSE updateAll(updateRecord(e, entries[i].record), entries, i + 1)

\* the end of a search that updates the top k also when it simulates
searchTop_UpdateAlways(acc, top, simulate) ==
    [e |-> updateAll(acc.e, top, 1),
     ok |-> TRUE,
     result |-> [i \in 1..Len(top) |-> top[i].record.id],
     entries |-> top]

\* the end of search: the top k are updated (unless simulate) and returned
searchTop(acc, top, simulate) ==
    [e |-> IF simulate THEN acc.e ELSE updateAll(acc.e, top, 1),
     ok |-> TRUE,
     result |-> [i \in 1..Len(top) |-> top[i].record.id],
     entries |-> top]

searchRescored(acc, k, simulate) ==
    IF acc.failed THEN [e |-> acc.e, ok |-> FALSE, result |-> << >>, entries |-> << >>]
    ELSE searchTop(acc, Take(SortByScore(acc.rescored), k), simulate)

\* search from the point where the query embedding is available; the lock is
\* handled by the caller.  ok is FALSE when the call throws.
searchBody(e, queryText, k, simulate, filters) ==
    searchRescored(rescoreFrom(candidates(e, embed(queryText), k, simulate), 1,
                               [e |-> e, rescored |-> << >>, failed |-> FALSE],
                               simulate, filters),
                   k, simulate)

\* ------------------------------------------------------------------------
\* Pruning, integrity, utilities
\* ------------------------------------------------------------------------
\* a persisted index: whether a saved copy exists, and its nodes
NotSaved == [exists |-> FALSE, nodes |-> EmptyIndex]

\* save that persists the WARM index only
save_WarmOnly(e) == [e EXCEPT !.savedWarm = [exists |-> TRUE, nodes |-> e.warm]]

save(e) ==
    [e EXCEPT !.savedHot = [exists |-> TRUE, nodes |-> e.hot],
              !.savedWarm = [exists |-> TRUE, nodes |-> e.warm]]

\* _compactHNSW with the compact lock free
compactHNSW(e) ==
    save([e EXCEPT !.hot = compact(e.hot), !.warm = compact(e.warm), !.dsc = 0])

\* the prune test without the weight condition
prunable_AnyWeight(r) ==
    LET record == FromMeta(toJSON(r), dequantizeInt8(r.embedding), "COLD")
    IN record.usage_count = 0

prunable(r) ==
    LET record == FromMeta(toJSON(r), dequantizeInt8(r.embedding), "COLD")
    IN effective_weight(record, now) < epsilon /\ record.usage_count = 0

\* the scan deleting also when it simulates
RECURSIVE pruneFrom_DeleteAlways(_, _, _, _)
pruneFrom_DeleteAlways(coldRecords, i, acc, simulate) ==
    IF i > Len(coldRecords) THEN acc
    ELSE IF prunable(coldRecords[i])
      THEN pruneFrom_DeleteAlways(coldRecords, i + 1,
                     [e |-> [acc.e EXCEPT !.cs = StoreDelete(acc.e.cs, coldRecords[i].id),
                                          !.dsc = acc.e.dsc + 1],
                      ids |-> Append(acc.ids, coldRecords[i].id)],
                     simulate)
      ELSE pruneFrom_DeleteAlways(coldRecords, i + 1, acc, simulate)

RECURSIVE pruneFrom(_, _, _, _)
pruneFrom(coldRecords, i, acc, simulate) ==
    IF i > Len(coldRecords) THEN acc
    ELSE IF prunable(coldRecords[i])
      THEN pruneFrom(coldRecords, i + 1,
                     [e |-> IF simulate THEN acc.e
                            ELSE [acc.e EXCEPT !.cs = StoreDelete(acc.e.cs, coldRecords[i].id),
                                               !.dsc = acc.e.dsc + 1],
                      ids |-> Append(acc.ids, coldRecords[i].id)],
                     simulate)
      ELSE pruneFrom(coldRecords, i + 1, acc, simulate)

getAllRecords(e) ==
    LET hotMeta == getAllMetadata(e.hot)
        warmMeta == getAllMetadata(e.warm)
        coldRaw == getAll(e.cs)
    IN [i \in 1..Len(hotMeta) |-> [hotMeta[i] EXCEPT !.currentTier = "HOT"]]
       \o [i \in 1..Len(warmMeta) |-> [warmMeta[i] EXCEPT !.currentTier = "WARM"]]
       \o [i \in 1..Len(coldRaw) |-> [toJSON(coldRaw[i]) EXCEPT !.currentTier = "COLD"]]

\* the first live HOT node of the record whose metadata carries a handle
FirstHotWithId(index, id) ==
    LET hs == {h \in LiveHandles(index) :
                  index[h].metadata.id = id /\ index[h].metadata.hnswHotId # NULL}
    IN IF hs = {} THEN NULL ELSE CHOOSE h \in hs : \A g \in hs : h <= g

quarantine(e, id) ==
    LET warmRec == IF StoreHas(e.ws, id) THEN e.ws[id] ELSE [hnswWarmId |-> NULL]
        warm2 == IF StoreHas(e.ws, id) /\ warmRec.hnswWarmId # NULL
                 THEN softDelete(e.warm, warmRec.hnswWarmId) ELSE e.warm
        first == FirstHotWithId(e.hot, id)
        hot2 == IF first # NULL
                THEN softDelete(e.hot, e.hot[first].metadata.hnswHotId) ELSE e.hot
        dsc2 == e.dsc + 1
    IN [e EXCEPT !.warm = warm2, !.hot = hot2,
                 !.ws = StoreDelete(e.ws, id), !.cs = StoreDelete(e.cs, id),
                 !.dsc = dsc2,
                 !.sched = IF dsc2 >= compactionThreshold THEN e.sched \cup {"compactHNSW"}
                           ELSE e.sched]

RECURSIVE verifyFrom(_, _, _)
verifyFrom(records, i, acc) ==
    IF i > Len(records) THEN acc
    ELSE IF hash(records[i].text) # records[i].integrity_hash
      THEN verifyFrom(records, i + 1,
                      [e |-> quarantine(acc.e, records[i].id),
                       corrupted |-> Append(acc.corrupted, records[i].id)])
      ELSE verifyFrom(records, i + 1, acc)

verifyIntegrity(e) == verifyFrom(getAllRecords(e), 1, [e |-> e, corrupted |-> << >>])

getStats(e) ==
    LET hotCount == Len(getAllMetadata(e.hot))
        warmCount == StoreCount(e.ws)
        coldCount == StoreCount(e.cs)
    IN [total |-> hotCount + warmCount + coldCount, hot |-> hotCount, warm |-> warmCount,
        cold |-> coldCount, journal |-> StoreCount(e.js), journalCounter |-> e.jc]

\* ------------------------------------------------------------------------
\* Consolidation
\* ------------------------------------------------------------------------
\* hierarchical clustering without a threshold merges the vectors of a chunk
\* into one cluster; a cluster is the sequence of its leaves
hcluster(vectors) == <<vectors>>

\* the record the map from embedding hash to record holds for a leaf: of the
\* records with that embedding the one set last (its position in the chunk)
leafRecord(objs, leaf) ==
    CHOOSE i \in 1..Len(objs) :
        /\ objs[i].embedding = leaf
        /\ \A j \in (i + 1)..Len(objs) : objs[j].embedding # leaf

RECURSIVE joinedIds(_, _, _)
joinedIds(objs, cluster, i) ==
    IF i > Len(cluster) THEN 0
    ELSE (2 ^ objs[cluster[i]].id) + joinedIds(objs, cluster, i + 1)

\* sha256 of the summary and the joined member ids
clusterIdOf(objs, cluster) == 2000 + joinedIds(objs, cluster, 1)

\* the mean of the member embeddings
centroid(objs, cluster) ==
    IF \A i \in 1..Len(cluster) : objs[cluster[i]].embedding.t = objs[cluster[1]].embedding.t
    THEN [t |-> objs[cluster[1]].embedding.t, prec |-> "f32",
          len |-> objs[cluster[1]].embedding.len]
    ELSE [t |-> SummaryText, prec |-> "f32", len |-> objs[cluster[1]].embedding.len]

semanticRecord(id, objs, cluster) ==
    [MemoryRecord(id, centroid(objs, cluster), SummaryText, now, FALSE, 700,
                  hash(SummaryText), "WARM")
       EXCEPT !.metadata = [cluster_id |-> clusterIdOf(objs, cluster),
                            member_count |-> Len(cluster)],
              !.semantic_cluster_id = clusterIdOf(objs, cluster)]

\* a member after access, cluster assignment and attenuation
attenuated(r, clusterId, simulate) ==
    [access(r, simulate) EXCEPT !.semantic_cluster_id = clusterId,
                                !.importance = (@ * 8) \div 10]

demotionAfter(p, simulate) == applyDemotion(p.e, p.r, simulate)

\* member idx has been pushed as r and has gone through promotion and demotion
memberTiered(acc, idx, r, d) ==
    [e |-> d.e, objs |-> [acc.objs EXCEPT ![idx] = d.r],
     updated |-> Append(acc.updated, toJSON(r))]

memberDone(acc, idx, r, simulate) ==
    memberTiered(acc, idx, r, demotionAfter(applyPromotion(acc.e, r, simulate), simulate))

\* the loop of _processCluster over the cluster's records; a record that is in
\* the cluster twice is the same object both times
RECURSIVE processMembers(_, _, _, _, _)
processMembers(cluster, i, acc, clusterId, simulate) ==
    IF i > Len(cluster) THEN acc
    ELSE processMembers(cluster, i + 1,
                        memberDone(acc, cluster[i],
                                   attenuated(acc.objs[cluster[i]], clusterId, simulate),
                                   simulate),
                        clusterId, simulate)

semanticStored(e, r, simulate) == IF simulate THEN [e |-> e, r |-> r] ELSE storeWarm(e, r)

processStored(objs, cluster, sw, simulate) ==
    processMembers(cluster, 1, [e |-> sw.e, objs |-> objs, updated |-> <<toJSON(sw.r)>>],
                   clusterIdOf(objs, cluster), simulate)

\* objs are the chunk's record objects, cluster the positions of its records
processCluster(e, objs, cluster, id, simulate) ==
    IF Len(cluster) < 2 THEN [e |-> e, objs |-> objs, updated |-> << >>]
    ELSE processStored(objs, cluster,
                       semanticStored(appendJournal(e, semanticRecord(id, objs, cluster)),
                                      semanticRecord(id, objs, cluster), simulate),
                       simulate)

clusterProcessed(acc, p) ==
    [e |-> p.e, objs |-> p.objs, updated |-> acc.updated \o p.updated]

RECURSIVE consolidateClusters(_, _, _, _, _)
consolidateClusters(clusters, c, acc, id, simulate) ==
    IF c > Len(clusters) THEN acc
    ELSE IF Len(clusters[c]) < 2 THEN consolidateClusters(clusters, c + 1, acc, id, simulate)
    ELSE consolidateClusters(clusters, c + 1,
             clusterProcessed(acc,
                 processCluster(acc.e, acc.objs,
                                [j \in 1..Len(clusters[c]) |-> leafRecord(acc.objs, clusters[c][j])],
                                id + c - 1, simulate)),
             id, simulate)

consolidateChunk(e, objs, id, simulate) ==
    IF Len(objs) < 2 THEN [e |-> e, objs |-> objs, updated |-> << >>]
    ELSE consolidateClusters(hcluster([i \in 1..Len(objs) |-> objs[i].embedding]), 1,
                             [e |-> e, objs |-> objs, updated |-> << >>], id, simulate)

chunkRecords(chunk) ==
    [i \in 1..Len(chunk) |->
        FromMeta(toJSON(chunk[i]), dequantizeFloat16(chunk[i].embedding), "WARM")]

RECURSIVE consolidateChunks(_, _, _, _, _)
consolidateChunks(warmRaw, offset, acc, id, simulate) ==
    IF offset > Len(warmRaw) THEN acc
    ELSE consolidateChunks(warmRaw, offset + consolidationChunkSize,
             clusterProcessed(acc,
                 consolidateChunk(acc.e,
                     chunkRecords(SubSeq(warmRaw, offset,
                                         Min2(offset + consolidationChunkSize - 1, Len(warmRaw)))),
                     id, simulate)),
             id, simulate)

RECURSIVE updateEach(_, _, _)
updateEach(e, updated, i) ==
    IF i > Len(updated) THEN e
    ELSE updateEach(updateRecord(e, updated[i]), updated, i + 1)

consolidated(c, simulate) ==
    [e |-> [(IF simulate THEN c.e ELSE updateEach(c.e, c.updated, 1)) EXCEPT !.rsc = 0],
     updated |-> c.updated]

\* consolidate with the consolidate lock free
consolidate(e, id, simulate) ==
    IF StoreCount(e.ws) < 2 THEN [e |-> e, updated |-> << >>]
    ELSE consolidated(consolidateChunks(getAll(e.ws), 1,
                                        [e |-> e, objs |-> << >>, updated |-> << >>],
                                        id, simulate),
                      simulate)

\* ------------------------------------------------------------------------
\* Whole operations
\* ------------------------------------------------------------------------
newRecord(id, text, importance) ==
    MemoryRecord(id, embed(text), text, now, TRUE, importance, hash(text), "WARM")

\* createMemoryRecord after the record is stored: counters and scheduling
finishCreate(e, n) ==
    LET e2 == trackMutation([e EXCEPT !.rsc = e.rsc + n])
    IN IF n = 1 /\ e2.rsc >= consolidationInterval
       THEN [e2 EXCEPT !.sched = e2.sched \cup {"consolidate"}]
       ELSE e2

createMemoryRecord(e, id, text, importance) ==
    LET record == newRecord(id, text, importance)
        journaled == appendJournal(e, record)
        stored == storeWarm(journaled, record)
    IN finishCreate(stored.e, 1)

\* createMemoryRecords for two texts: the appendJournal calls run under
\* Promise.all, each up to its first await and then on in the order of their puts
createMemoryRecords(e, id1, id2, text1, text2, importance) ==
    LET r1 == newRecord(id1, text1, importance)
        r2 == newRecord(id2, text2, importance)
        e1 == incrementJournalCounter(incrementJournalCounter(e))
        e2 == journalPut(journalPut(e1, r1), r2)
        e3 == journalCountCheck(journalCountCheck(e2))
        s1 == storeWarm(e3, r1)
        s2 == storeWarm(s1.e, r2)
    IN finishCreate(s2.e, 2)

prune(e, simulate) ==
    LET scan == pruneFrom(getAll(e.cs), 1, [e |-> e, ids |-> << >>], simulate)
        compacted == IF scan.e.dsc >= compactionThreshold THEN compactHNSW(scan.e) ELSE scan.e
    IN IF ~simulate /\ Len(scan.ids) > 0
       THEN [e |-> trackMutation(compacted), ids |-> scan.ids]
       ELSE scan

clear(e) ==
    [e EXCEPT !.ws = EmptyStore, !.cs = EmptyStore, !.js = EmptyStore,
              !.hot = EmptyIndex, !.warm = EmptyIndex,
              !.rsc = 0, !.jc = 0, !.dsc = 0, !.msl = 0, !.mc = 0]

\* _loadJournalCounter that ignores the persisted value
loadJournalCounter_Zero(e) == [e EXCEPT !.jc = 0]

loadJournalCounter(e) == [e EXCEPT !.jc = e.mc]

loadIndexes(e) ==
    [e EXCEPT !.hot = IF e.savedHot.exists THEN e.savedHot.nodes ELSE EmptyIndex,
              !.warm = IF e.savedWarm.exists THEN e.savedWarm.nodes ELSE EmptyIndex]

initialize(e) == loadIndexes(loadJournalCounter(e))

\* a new SCMP instance over the same IndexedDB databases
construct(e) ==
    [e EXCEPT !.hot = EmptyIndex, !.warm = EmptyIndex, !.jc = 0, !.rsc = 0, !.dsc = 0,
              !.msl = 0, !.sched = {}]

ZeroStats == [total |-> 0, hot |-> 0, warm |-> 0, cold |-> 0, journal |-> 0, journalCounter |-> 0]

NoLocks == [search |-> FALSE, consolidate |-> FALSE, prune |-> FALSE, compact |-> FALSE]

OpRec(name) ==
    [name |-> name, id |-> 0, q |-> 0, k |-> 0, simulate |-> FALSE, ok |-> TRUE,
     result |-> << >>, prev |-> "none", prevId |-> 0, sole |-> FALSE, streak |-> 0,
     expect |-> {}, cands |-> << >>, stats |-> ZeroStats,
     err |-> "none", members |-> {}, before |-> << >>, after |-> << >>,
     cluster |-> NULL, size |-> 0, held |-> FALSE, fault |-> "none",
     attempts |-> 0, delays |-> << >>, outcomes |-> << >>, len |-> 0, len2 |-> 0,
     filters |-> NoFilters, entries |-> << >>, tiers |-> {}]

\* ------------------------------------------------------------------------
\* Init and the actions of Spec
\* ------------------------------------------------------------------------
Init ==
    /\ hnswHot = EmptyIndex /\ hnswWarm = EmptyIndex
    /\ savedHot = NotSaved /\ savedWarm = NotSaved
    /\ warmStore = EmptyStore /\ coldStore = EmptyStore /\ journalStore = EmptyStore
    /\ metaCounter = 0
    /\ initialized = FALSE
    /\ journalCounter = 0
    /\ recordsSinceConsolidation = 0
    /\ deletionsSinceCompaction = 0
    /\ mutationsSinceLastSave = 0
    /\ locks = NoLocks
    /\ scheduled = {}
    /\ now = 0
    /\ nextId = 1
    /\ issued = << >>
    /\ clearedAt = 0
    /\ lastOp = OpRec("none")
    /\ tasks = << >>

Initialize ==
    /\ ~initialized
    /\ Commit(initialize(Eng))
    /\ initialized' = TRUE
    /\ lastOp' = [OpRec("initialize") EXCEPT
                     !.prev = IF lastOp.name = "restart" THEN lastOp.prev ELSE "none",
                     !.prevId = IF lastOp.name = "restart" THEN lastOp.prevId ELSE 0,
                     !.stats = lastOp.stats]
    /\ UNCHANGED <<locks, now, nextId, clearedAt, tasks>>

\* the page is reloaded: everything in memory is lost
Restart ==
    /\ initialized
    /\ Commit(construct(Eng))
    /\ initialized' = FALSE
    /\ locks' = NoLocks
    /\ lastOp' = [OpRec("restart") EXCEPT !.prev = lastOp.name, !.prevId = lastOp.id,
                                         !.stats = getStats(Eng)]
    /\ UNCHANGED <<now, nextId, clearedAt, tasks>>

CreateMemoryRecord(text, importance) ==
    /\ initialized
    /\ nextId <= MaxRecords
    /\ Len(hnswWarm) < MaxNodes
    /\ Commit(createMemoryRecord(Eng, nextId, text, importance))
    /\ nextId' = nextId + 1
    /\ lastOp' = [OpRec("createMemoryRecord") EXCEPT !.id = nextId, !.q = text,
                                                     !.prev = lastOp.name]
    /\ UNCHANGED <<initialized, locks, now, clearedAt, tasks>>

CreateMemoryRecords(text1, text2, importance) ==
    /\ initialized
    /\ nextId + 1 <= MaxRecords
    /\ Len(hnswWarm) + 1 < MaxNodes
    /\ Commit(createMemoryRecords(Eng, nextId, nextId + 1, text1, text2, importance))
    /\ nextId' = nextId + 2
    /\ lastOp' = [OpRec("createMemoryRecords") EXCEPT !.id = nextId, !.k = 2,
                     !.stats = getStats(Eng)]
    /\ UNCHANGED <<initialized, locks, now, clearedAt, tasks>>

\* no candidate of a search other than the nodes and entries of record id
SoleCandidate(e, id) ==
    /\ \A h \in LiveHandles(e.hot) : e.hot[h].metadata.id = id
    /\ \A h \in LiveHandles(e.warm) : e.warm[h].metadata.id = id
    /\ DOMAIN e.cs \subseteq {id}

\* search returns s; created is the record of the preceding createMemoryRecord
\* of the same text, 0 when there is none
SearchReturn(s, queryText, k, simulate, created) ==
    /\ Len(s.e.hot) <= MaxNodes
    /\ Len(s.e.warm) <= MaxNodes
    /\ Commit(s.e)
    /\ lastOp' = [OpRec("search") EXCEPT !.q = queryText, !.k = k, !.simulate = simulate,
                     !.ok = s.ok, !.result = s.result, !.prev = lastOp.name,
                     !.prevId = created,
                     !.streak = IF simulate \/ ~s.ok \/ s.result = << >> THEN 0
                                ELSE IF lastOp.name = "search" /\ lastOp.result = s.result
                                THEN Min2(lastOp.streak + 1, U_hot)
                                ELSE 1,
                     !.sole = (created # 0 /\ SoleCandidate(Eng, created))]

Search(queryText, k, simulate) ==
    /\ initialized
    /\ SearchReturn(searchBody(Eng, queryText, k, simulate, NoFilters), queryText, k, simulate,
                    IF lastOp.name = "createMemoryRecord" /\ lastOp.q = queryText
                    THEN lastOp.id ELSE 0)
    /\ UNCHANGED <<initialized, locks, now, nextId, clearedAt, tasks>>

PruneReturn(p, simulate) ==
    /\ Commit(p.e)
    /\ lastOp' = [OpRec("prune") EXCEPT !.simulate = simulate, !.result = p.ids]

Prune(simulate) ==
    /\ initialized
    /\ PruneReturn(prune(Eng, simulate), simulate)
    /\ UNCHANGED <<initialized, locks, now, nextId, clearedAt, tasks>>

\* consolidate returns c; the members are the WARM store records of the pass
ConsolidateReturn(c, simulate) ==
    /\ Len(c.e.hot) <= MaxNodes
    /\ Len(c.e.warm) <= MaxNodes
    /\ Commit(c.e)
    /\ nextId' = IF c.updated = << >> THEN nextId ELSE nextId + 1
    /\ lastOp' = [OpRec("consolidate") EXCEPT
                     !.simulate = simulate, !.id = nextId,
                     !.result = [i \in 1..Len(c.updated) |-> c.updated[i].id],
                     !.members = {c.updated[i].id : i \in 2..Len(c.updated)},
                     !.cluster = IF c.updated = << >> THEN NULL
                                 ELSE c.updated[1].semantic_cluster_id,
                     !.size = IF c.updated = << >> THEN 0 ELSE Len(c.updated) - 1,
                     !.before = [id \in DOMAIN warmStore |-> warmStore[id].importance]]

Consolidate(simulate) ==
    /\ initialized
    /\ ~locks.consolidate
    /\ journalCounter < MaxJournal
    /\ ConsolidateReturn(consolidate(Eng, nextId, simulate), simulate)
    /\ UNCHANGED <<initialized, locks, now, clearedAt, tasks>>

\* ids whose text in the WARM store no longer hashes to the stored integrity_hash
MutatedInWarmStore(e) ==
    {id \in DOMAIN e.ws : hash(e.ws[id].text) # e.ws[id].integrity_hash}

VerifyIntegrityReturn(v) ==
    /\ Commit(v.e)
    /\ lastOp' = [OpRec("verifyIntegrity") EXCEPT !.result = v.corrupted,
                     !.expect = MutatedInWarmStore(Eng), !.prev = lastOp.name]

VerifyIntegrity ==
    /\ initialized
    /\ deletionsSinceCompaction < MaxDeletions
    /\ VerifyIntegrityReturn(verifyIntegrity(Eng))
    /\ UNCHANGED <<initialized, locks, now, nextId, clearedAt, tasks>>

Save ==
    /\ initialized
    /\ Commit(save(Eng))
    /\ lastOp' = OpRec("save")
    /\ UNCHANGED <<initialized, locks, now, nextId, clearedAt, tasks>>

Clear ==
    /\ initialized
    /\ Commit(clear(Eng))
    /\ clearedAt' = Len(issued)
    /\ lastOp' = OpRec("clear")
    /\ UNCHANGED <<initialized, locks, now, nextId, tasks>>

\* the environment: time passes; a record's text is rewritten directly in the WARM store
Tick ==
    /\ now < MaxEpoch
    /\ now' = now + 1
    /\ UNCHANGED <<hnswHot, hnswWarm, savedHot, savedWarm, warmStore, coldStore, journalStore,
                   metaCounter, initialized, journalCounter, recordsSinceConsolidation,
                   deletionsSinceCompaction, mutationsSinceLastSave, locks, scheduled, nextId,
                   issued, clearedAt, lastOp, tasks>>

RewriteWarmText(id) ==
    /\ id \in DOMAIN warmStore
    /\ warmStore[id].text # TamperedText
    /\ warmStore' = StorePut(warmStore, id, [warmStore[id] EXCEPT !.text = TamperedText])
    /\ lastOp' = OpRec("rewrite")
    /\ UNCHANGED <<hnswHot, hnswWarm, savedHot, savedWarm, coldStore, journalStore,
                   metaCounter, initialized, journalCounter, recordsSinceConsolidation,
                   deletionsSinceCompaction, mutationsSinceLastSave, locks, scheduled, now, nextId,
                   issued, clearedAt, tasks>>

RewriteColdText(id) ==
    /\ id \in DOMAIN coldStore
    /\ coldStore[id].text # TamperedText
    /\ coldStore' = StorePut(coldStore, id, [coldStore[id] EXCEPT !.text = TamperedText])
    /\ lastOp' = OpRec("rewrite")
    /\ UNCHANGED <<hnswHot, hnswWarm, savedHot, savedWarm, warmStore, journalStore,
                   metaCounter, initialized, journalCounter, recordsSinceConsolidation,
                   deletionsSinceCompaction, mutationsSinceLastSave, locks, scheduled, now, nextId,
                   issued, clearedAt, tasks>>

\* a persisted index with the text in the metadata of node h rewritten
rewriteSaved(saved, h) ==
    [saved EXCEPT !.nodes = [saved.nodes EXCEPT ![h].metadata.text = TamperedText]]

\* the text of a live node is rewritten in the persisted copy of an index
RewriteSavedText(tier, h) ==
    /\ tier = "HOT" =>
          /\ savedHot.exists /\ h \in LiveHandles(savedHot.nodes)
          /\ savedHot.nodes[h].metadata.text # TamperedText
          /\ savedHot' = rewriteSaved(savedHot, h)
          /\ UNCHANGED savedWarm
    /\ tier = "WARM" =>
          /\ savedWarm.exists /\ h \in LiveHandles(savedWarm.nodes)
          /\ savedWarm.nodes[h].metadata.text # TamperedText
          /\ savedWarm' = rewriteSaved(savedWarm, h)
          /\ UNCHANGED savedHot
    /\ lastOp' = [OpRec("rewrite") EXCEPT !.prev = lastOp.prev, !.prevId = lastOp.prevId,
                                          !.stats = lastOp.stats]
    /\ UNCHANGED <<hnswHot, hnswWarm, warmStore, coldStore, journalStore,
                   metaCounter, initialized, journalCounter, recordsSinceConsolidation,
                   deletionsSinceCompaction, mutationsSinceLastSave, locks, scheduled, now, nextId,
                   issued, clearedAt, tasks>>

\* a caller archives a record of its own making with storeCold
StoreCold(text, importance) ==
    /\ initialized
    /\ nextId <= MaxRecords
    /\ Commit(storeCold(Eng, MemoryRecord(nextId, embed(text), text, now, TRUE, importance,
                                          hash(text), "COLD")).e)
    /\ nextId' = nextId + 1
    /\ lastOp' = [OpRec("storeCold") EXCEPT !.id = nextId, !.q = text, !.prev = lastOp.name]
    /\ UNCHANGED <<initialized, locks, now, clearedAt, tasks>>

\* the public operations that need no restart, and the environment
Next ==
    \/ Initialize
    \/ \E in \in CreateInputs : CreateMemoryRecord(in.text, in.importance)
    \/ CreateMemoryRecords(BatchTexts[1], BatchTexts[2], 500)
    \/ \E queryText \in Texts, k \in Ks, simulate \in BOOLEAN : Search(queryText, k, simulate)
    \/ \E simulate \in BOOLEAN : Prune(simulate)
    \/ VerifyIntegrity
    \/ Tick
    \/ \E id \in 1..MaxRecords : RewriteWarmText(id)

Spec == Init /\ [][Next]_vars

\* writes and searches with save(), clear() and restarts
NextDurability ==
    \/ Initialize
    \/ Restart
    \/ \E in \in CreateInputs : CreateMemoryRecord(in.text, in.importance)
    \/ CreateMemoryRecords(BatchTexts[1], BatchTexts[2], 500)
    \/ \E queryText \in Texts, k \in Ks : Search(queryText, k, FALSE)
    \/ VerifyIntegrity
    \/ Save
    \/ Clear

SpecDurability == Init /\ [][NextDurability]_vars

\* integrity verification over records of all tiers, with rewritten texts in
\* the stores and in the persisted indexes
NextIntegrity ==
    \/ Initialize
    \/ Restart
    \/ \E in \in CreateInputs : CreateMemoryRecord(in.text, in.importance)
    \/ \E in \in CreateInputs : StoreCold(in.text, in.importance)
    \/ \E queryText \in Texts, k \in Ks : Search(queryText, k, FALSE)
    \/ Save
    \/ VerifyIntegrity
    \/ \E id \in 1..MaxRecords : RewriteWarmText(id)
    \/ \E id \in 1..MaxRecords : RewriteColdText(id)
    \/ \E tier \in {"HOT", "WARM"}, h \in 1..MaxNodes : RewriteSavedText(tier, h)

SpecIntegrity == Init /\ [][NextIntegrity]_vars

\* pruning over records of all tiers that searches use, as time passes
NextPrune ==
    \/ Initialize
    \/ \E in \in CreateInputs : CreateMemoryRecord(in.text, in.importance)
    \/ \E in \in CreateInputs : StoreCold(in.text, in.importance)
    \/ \E queryText \in Texts, k \in Ks : Search(queryText, k, FALSE)
    \/ \E simulate \in BOOLEAN : Prune(simulate)
    \/ Tick

SpecPrune == Init /\ [][NextPrune]_vars

\* searches, consolidation and pruning over records of all tiers, as time passes
NextMaint ==
    \/ Initialize
    \/ \E in \in MaintInputs : CreateMemoryRecord(in.text, in.importance)
    \/ \E in \in MaintInputs : StoreCold(in.text, in.importance)
    \/ \E queryText \in Texts, k \in MaintKs, simulate \in BOOLEAN :
          Search(queryText, k, simulate)
    \/ \E simulate \in BOOLEAN : Consolidate(simulate)
    \/ \E simulate \in BOOLEAN : Prune(simulate)
    \/ Tick

SpecMaint == Init /\ [][NextMaint]_vars

\* ------------------------------------------------------------------------
\* SpecConc: calls in flight, one step per stretch between two awaits
\* ------------------------------------------------------------------------
Idle == [kind |-> "idle", pc |-> "idle", r |-> << >>, jpc |-> << >>, q |-> 0, k |-> 0,
         simulate |-> FALSE, seen |-> {}]

InitConc ==
    /\ hnswHot = EmptyIndex /\ hnswWarm = EmptyIndex
    /\ savedHot = NotSaved /\ savedWarm = NotSaved
    /\ warmStore = EmptyStore /\ coldStore = EmptyStore /\ journalStore = EmptyStore
    /\ metaCounter = 0
    /\ initialized = FALSE
    /\ journalCounter = 0
    /\ recordsSinceConsolidation = 0
    /\ deletionsSinceCompaction = 0
    /\ mutationsSinceLastSave = 0
    /\ locks = NoLocks
    /\ scheduled = {}
    /\ now = 0
    /\ nextId = 1
    /\ issued = << >>
    /\ clearedAt = 0
    /\ lastOp = OpRec("none")
    /\ tasks = [i \in 1..MaxTasks |-> Idle]

ConcFrame == UNCHANGED <<initialized, now, clearedAt>>

\* a new call takes the first free slot
FreeSlot(i) == tasks[i] = Idle /\ \A j \in 1..(i - 1) : tasks[j] # Idle

InitializeConc ==
    /\ ~initialized
    /\ Commit(initialize(Eng))
    /\ initialized' = TRUE
    /\ UNCHANGED <<locks, now, nextId, clearedAt, lastOp, tasks>>

\* ids of the records that have an entry in the journal store
JournaledIds(e) == {e.js[j].record.id : j \in DOMAIN e.js}

\* createMemoryRecord is called; it runs up to the first await of appendJournal
CallCreate(i, text, importance) ==
    /\ initialized
    /\ FreeSlot(i)
    /\ nextId <= MaxRecords
    /\ Commit(incrementJournalCounter(Eng))
    /\ tasks' = [tasks EXCEPT ![i] = [Idle EXCEPT !.kind = "create", !.pc = "journalPut",
                                                  !.r = <<newRecord(nextId, text, importance)>>]]
    /\ nextId' = nextId + 1
    /\ UNCHANGED <<locks, lastOp>>
    /\ ConcFrame

\* the await of _incrementJournalCounter returns: the id is read and the entry put
CreateJournalPut(i) ==
    /\ tasks[i].kind = "create" /\ tasks[i].pc = "journalPut"
    /\ Commit(journalPut(Eng, tasks[i].r[1]))
    /\ tasks' = [tasks EXCEPT ![i].pc = "journalCount"]
    /\ UNCHANGED <<locks, lastOp, nextId>>
    /\ ConcFrame

CreateJournalCount(i) ==
    /\ tasks[i].kind = "create" /\ tasks[i].pc = "journalCount"
    /\ Commit(journalCountCheck(Eng))
    /\ tasks' = [tasks EXCEPT ![i].pc = "storeWarm"]
    /\ UNCHANGED <<locks, lastOp, nextId>>
    /\ ConcFrame

\* storeWarm for record n of task i returned sw
StoreWarmReturn(i, n, sw) ==
    /\ Commit(sw.e)
    /\ tasks' = [tasks EXCEPT ![i].r[n] = sw.r,
                              ![i].k = n + 1,
                              ![i].pc = IF n = Len(tasks[i].r) THEN "finish" ELSE "storeWarm"]

CreateStoreWarm(i) ==
    /\ tasks[i].kind = "create" /\ tasks[i].pc = "storeWarm"
    /\ StoreWarmReturn(i, 1, storeWarm(Eng, tasks[i].r[1]))
    /\ UNCHANGED <<locks, lastOp, nextId>>
    /\ ConcFrame

CreateFinish(i) ==
    /\ tasks[i].kind = "create" /\ tasks[i].pc = "finish"
    /\ Commit(finishCreate(Eng, 1))
    /\ tasks' = [tasks EXCEPT ![i] = Idle]
    /\ lastOp' = [OpRec("createMemoryRecord") EXCEPT !.id = tasks[i].r[1].id,
                     !.q = tasks[i].r[1].text, !.prev = lastOp.name]
    /\ UNCHANGED <<locks, nextId>>
    /\ ConcFrame

\* createMemoryRecords is called for two texts; after embedBatch it starts both
\* appendJournal calls, each of which runs up to its first await
CallBatch(i, text1, text2, importance) ==
    /\ initialized
    /\ FreeSlot(i)
    /\ nextId + 1 <= MaxRecords
    /\ Commit(incrementJournalCounter(incrementJournalCounter(Eng)))
    /\ tasks' = [tasks EXCEPT ![i] = [Idle EXCEPT !.kind = "batch", !.pc = "journal",
                    !.r = <<newRecord(nextId, text1, importance),
                            newRecord(nextId + 1, text2, importance)>>,
                    !.jpc = <<"journalPut", "journalPut">>]]
    /\ nextId' = nextId + 2
    /\ UNCHANGED <<locks, lastOp>>
    /\ ConcFrame

BatchJournalPut(i, n) ==
    /\ tasks[i].kind = "batch" /\ tasks[i].pc = "journal"
    /\ n \in 1..Len(tasks[i].jpc)
    /\ tasks[i].jpc[n] = "journalPut"
    /\ \A m \in 1..(n - 1) : tasks[i].jpc[m] # "journalPut"
    /\ Commit(journalPut(Eng, tasks[i].r[n]))
    /\ tasks' = [tasks EXCEPT ![i].jpc[n] = "journalCount"]
    /\ UNCHANGED <<locks, lastOp, nextId>>
    /\ ConcFrame

BatchJournalCount(i, n) ==
    /\ tasks[i].kind = "batch" /\ tasks[i].pc = "journal"
    /\ n \in 1..Len(tasks[i].jpc)
    /\ tasks[i].jpc[n] = "journalCount"
    /\ Commit(journalCountCheck(Eng))
    /\ tasks' = [tasks EXCEPT ![i].jpc[n] = "done",
                              ![i].pc = IF \A m \in 1..Len(tasks[i].jpc) : m = n \/ tasks[i].jpc[m] = "done"
                                        THEN "storeWarm" ELSE "journal",
                              ![i].k = 1]
    /\ UNCHANGED <<locks, lastOp, nextId>>
    /\ ConcFrame

\* the for loop over the batch: one storeWarm per record, awaited in turn
BatchStoreWarm(i) ==
    /\ tasks[i].kind = "batch" /\ tasks[i].pc = "storeWarm"
    /\ StoreWarmReturn(i, tasks[i].k, storeWarm(Eng, tasks[i].r[tasks[i].k]))
    /\ UNCHANGED <<locks, lastOp, nextId>>
    /\ ConcFrame

BatchFinish(i) ==
    /\ tasks[i].kind = "batch" /\ tasks[i].pc = "finish"
    /\ Commit(finishCreate(Eng, Len(tasks[i].r)))
    /\ tasks' = [tasks EXCEPT ![i] = Idle]
    /\ lastOp' = [OpRec("createMemoryRecords") EXCEPT !.id = tasks[i].r[1].id,
                     !.k = Len(tasks[i].r)]
    /\ UNCHANGED <<locks, nextId>>
    /\ ConcFrame

\* search is called with the lock free (or simulate): it takes the lock and awaits the embedding
CallSearch(i, queryText, k, simulate) ==
    /\ initialized
    /\ FreeSlot(i)
    /\ simulate \/ ~locks.search
    /\ locks' = IF simulate THEN locks ELSE [locks EXCEPT !.search = TRUE]
    /\ tasks' = [tasks EXCEPT ![i] = [Idle EXCEPT !.kind = "search", !.pc = "embed",
                    !.q = queryText, !.k = k, !.simulate = simulate,
                    !.seen = JournaledIds(Eng)]]
    /\ UNCHANGED <<hnswHot, hnswWarm, savedHot, savedWarm, warmStore, coldStore, journalStore,
                   metaCounter, journalCounter, recordsSinceConsolidation,
                   deletionsSinceCompaction, mutationsSinceLastSave, scheduled, nextId,
                   issued, lastOp>>
    /\ ConcFrame

\* the search of task t read the candidates cs and returns s
SearchRunReturn(t, cs, s) ==
    /\ Len(s.e.hot) <= MaxNodes
    /\ Len(s.e.warm) <= MaxNodes
    /\ Commit(s.e)
    /\ lastOp' = [OpRec("search") EXCEPT !.q = t.q, !.k = t.k, !.simulate = t.simulate,
                     !.ok = s.ok, !.result = s.result, !.prev = lastOp.name,
                     !.expect = t.seen,
                     !.cands = [n \in 1..Len(cs) |-> cs[n].metadata.id]]
    /\ locks' = IF t.simulate THEN locks ELSE [locks EXCEPT !.search = FALSE]

\* the embedding arrives: candidates are read, rescored and updated
SearchRun(i) ==
    /\ tasks[i].kind = "search" /\ tasks[i].pc = "embed"
    /\ SearchRunReturn(tasks[i],
                       candidates(Eng, embed(tasks[i].q), tasks[i].k, tasks[i].simulate),
                       searchBody(Eng, tasks[i].q, tasks[i].k, tasks[i].simulate, NoFilters))
    /\ tasks' = [tasks EXCEPT ![i] = Idle]
    /\ UNCHANGED <<nextId>>
    /\ ConcFrame

NextConc ==
    \/ InitializeConc
    \/ \E i \in 1..MaxTasks, in \in CreateInputs : CallCreate(i, in.text, in.importance)
    \/ \E i \in 1..MaxTasks : CreateJournalPut(i)
    \/ \E i \in 1..MaxTasks : CreateJournalCount(i)
    \/ \E i \in 1..MaxTasks : CreateStoreWarm(i)
    \/ \E i \in 1..MaxTasks : CreateFinish(i)
    \/ \E i \in 1..MaxTasks : CallBatch(i, BatchTexts[1], BatchTexts[2], 500)
    \/ \E i \in 1..MaxTasks, n \in 1..2 : BatchJournalPut(i, n)
    \/ \E i \in 1..MaxTasks, n \in 1..2 : BatchJournalCount(i, n)
    \/ \E i \in 1..MaxTasks : BatchStoreWarm(i)
    \/ \E i \in 1..MaxTasks : BatchFinish(i)
    \/ \E i \in 1..MaxTasks, queryText \in Texts, k \in Ks : CallSearch(i, queryText, k, FALSE)
    \/ \E i \in 1..MaxTasks : SearchRun(i)

SpecConc == InitConc /\ [][NextConc]_vars

\* ------------------------------------------------------------------------
\* The write path with one failing step
\* ------------------------------------------------------------------------
\* the step that throws: the put of the journal counter, the put of the journal
\* entry, the insert into the WARM index, the put into the WARM store
Faults == {"none", "counter", "journal", "index", "store"}

\* appendJournal catches what its steps throw, logs it and returns
appendJournalFaulty(e, r, fault) ==
    CASE fault = "counter" -> [e EXCEPT !.jc = e.jc + 1]
      [] fault = "journal" -> incrementJournalCounter(e)
      [] OTHER -> appendJournal(e, r)

\* storeWarm logs what its steps throw and throws it again
storeWarmFaulty(e, r, fault) ==
    CASE fault = "index" -> [e |-> e, ok |-> FALSE]
      [] fault = "store" ->
             [e |-> [e EXCEPT !.warm = insertWithMetadata(e.warm, r.embedding, toJSON(r))],
              ok |-> FALSE]
      [] OTHER -> [e |-> storeWarm(e, r).e, ok |-> TRUE]

\* the statements of createMemoryRecord after storeWarm, skipped when it threw
createOutcome(s) == [e |-> IF s.ok THEN finishCreate(s.e, 1) ELSE s.e, ok |-> s.ok]

createMemoryRecordFaulty(e, record, fault) ==
    createOutcome(storeWarmFaulty(appendJournalFaulty(e, record, fault), record, fault))

CreateReturn(out, text, fault) ==
    /\ Commit(out.e)
    /\ nextId' = nextId + 1
    /\ lastOp' = [OpRec("createMemoryRecord") EXCEPT !.id = nextId, !.q = text,
                                                     !.ok = out.ok, !.fault = fault]
    /\ UNCHANGED <<initialized, locks, now, clearedAt, tasks>>

CreateFaulty(text, importance, fault) ==
    /\ initialized
    /\ nextId <= MaxRecords
    /\ Len(hnswWarm) < MaxNodes
    /\ CreateReturn(createMemoryRecordFaulty(Eng, newRecord(nextId, text, importance), fault),
                    text, fault)

NextFaults ==
    \/ Initialize
    \/ Restart
    \/ \E in \in CreateInputs, fault \in Faults :
          CreateFaulty(in.text, in.importance, fault)
    \/ \E queryText \in Texts, k \in Ks : Search(queryText, k, FALSE)
    \/ Tick

SpecFaults == Init /\ [][NextFaults]_vars

\* ------------------------------------------------------------------------
\* The encoder: retried requests, and vectors of any length
\* ------------------------------------------------------------------------
\* what the encoder does at each of its attempts: TRUE for an answer
Outcomes == [1..MaxAttempts -> BOOLEAN]

\* the lengths of the vectors the encoder answers with
Lens == {embedDim, embedDim - 1}

\* a wait that does not grow
retryDelay_Constant(attempt) == RETRY_DELAY_MS

\* attempt counts from 0
retryDelay(attempt) == RETRY_DELAY_MS * 2 ^ attempt

RECURSIVE retryFrom(_, _, _, _)
retryFrom(outcomes, attempt, retries, delays) ==
    IF attempt >= retries
    THEN [ok |-> FALSE, attempts |-> attempt, delays |-> delays]
    ELSE IF outcomes[attempt + 1]
    THEN [ok |-> TRUE, attempts |-> attempt + 1, delays |-> delays]
    ELSE retryFrom(outcomes, attempt + 1, retries,
                   IF attempt < retries - 1
                   THEN Append(delays, retryDelay(attempt))
                   ELSE delays)

retryableRequest(outcomes, retries) == retryFrom(outcomes, 0, retries, << >>)

\* the record createMemoryRecord builds from the encoder's vector
encodedRecord(id, text, importance, len) ==
    [newRecord(id, text, importance) EXCEPT !.embedding.len = len]

\* the index is built for embedDim components: it takes a vector of another
\* length or throws, as the library decides
insertFault(len, rejects) == IF len # embedDim /\ rejects THEN "index" ELSE "none"

EncodedReturn(req, out, text, len, outcomes) ==
    /\ Commit(IF req.ok THEN out.e ELSE Eng)
    /\ nextId' = IF req.ok THEN nextId + 1 ELSE nextId
    /\ lastOp' = [OpRec("createMemoryRecord") EXCEPT
                     !.id = nextId, !.q = text, !.ok = req.ok /\ out.ok,
                     !.err = IF req.ok THEN "none" ELSE "EncoderFailure",
                     !.attempts = req.attempts, !.delays = req.delays,
                     !.outcomes = outcomes,
                     !.len = IF req.ok THEN len ELSE 0]
    /\ UNCHANGED <<initialized, locks, now, clearedAt, tasks>>

CreateEncoded(text, importance, outcomes, len, rejects) ==
    /\ initialized
    /\ nextId <= MaxRecords
    /\ Len(hnswWarm) < MaxNodes
    /\ EncodedReturn(retryableRequest(outcomes, MAX_RETRIES),
                     createMemoryRecordFaulty(Eng, encodedRecord(nextId, text, importance, len),
                                              insertFault(len, rejects)),
                     text, len, outcomes)

\* createMemoryRecords after the journal entries are put: storeWarm for each
\* record in turn, up to the first that throws
batchOutcome(s) == [e |-> IF s.ok THEN finishCreate(s.e, 2) ELSE s.e, ok |-> s.ok]

batchSecond(s1, r2, fault2) ==
    IF s1.ok THEN batchOutcome(storeWarmFaulty(s1.e, r2, fault2)) ELSE s1

createMemoryRecordsFaulty(e, r1, r2, fault1, fault2) ==
    batchSecond(
        storeWarmFaulty(
            journalCountCheck(journalCountCheck(
                journalPut(journalPut(incrementJournalCounter(incrementJournalCounter(e)),
                                      r1), r2))),
            r1, fault1),
        r2, fault2)

BatchReturn(out, len1, len2) ==
    /\ Commit(out.e)
    /\ nextId' = nextId + 2
    /\ lastOp' = [OpRec("createMemoryRecords") EXCEPT !.id = nextId, !.k = 2, !.ok = out.ok,
                                                      !.len = len1, !.len2 = len2]
    /\ UNCHANGED <<initialized, locks, now, clearedAt, tasks>>

CreateBatchEncoded(text1, text2, importance, len1, len2, rejects) ==
    /\ initialized
    /\ nextId + 1 <= MaxRecords
    /\ Len(hnswWarm) + 1 < MaxNodes
    /\ BatchReturn(createMemoryRecordsFaulty(Eng,
                       encodedRecord(nextId, text1, importance, len1),
                       encodedRecord(nextId + 1, text2, importance, len2),
                       insertFault(len1, rejects), insertFault(len2, rejects)),
                   len1, len2)

NextEncoder ==
    \/ Initialize
    \/ \E in \in CreateInputs, outcomes \in Outcomes, len \in Lens, rejects \in BOOLEAN :
          CreateEncoded(in.text, in.importance, outcomes, len, rejects)
    \/ \E len1 \in Lens, len2 \in Lens, rejects \in BOOLEAN :
          CreateBatchEncoded(BatchTexts[1], BatchTexts[2], 500, len1, len2, rejects)
    \/ Save

SpecEncoder == Init /\ [][NextEncoder]_vars

\* ------------------------------------------------------------------------
\* Shutdown and the periodic save
\* ------------------------------------------------------------------------
shutdown(e) == IF e.msl > 0 THEN save(e) ELSE e

\* the callback of the auto-save timer
autoSave(e) == IF e.msl > 0 THEN [save(e) EXCEPT !.msl = 0] ELSE e

\* the indexes a later initialize() would load
persistedIndex(saved) == IF saved.exists THEN saved.nodes ELSE EmptyIndex

Shutdown ==
    /\ initialized
    /\ Commit(shutdown(Eng))
    /\ lastOp' = OpRec("shutdown")
    /\ UNCHANGED <<initialized, locks, now, nextId, clearedAt, tasks>>

AutoSave ==
    /\ initialized
    /\ mutationsSinceLastSave > 0
    /\ Commit(autoSave(Eng))
    /\ UNCHANGED <<initialized, locks, now, nextId, clearedAt, tasks, lastOp>>

NextShutdown ==
    \/ Initialize
    \/ Restart
    \/ \E in \in CreateInputs : CreateMemoryRecord(in.text, in.importance)
    \/ \E queryText \in Texts, k \in Ks : Search(queryText, k, FALSE)
    \/ AutoSave
    \/ Shutdown
    \/ Tick

SpecShutdown == Init /\ [][NextShutdown]_vars

\* ------------------------------------------------------------------------
\* Searches with filters
\* ------------------------------------------------------------------------
FilterInputs ==
    {NoFilters,
     [NoFilters EXCEPT !.hasEpisodic = TRUE],
     [NoFilters EXCEPT !.minImportance = 600],
     [NoFilters EXCEPT !.hasKey = TRUE, !.member_count = 1]}

\* the fields of a returned entry that filters are about
filterFields(entry) ==
    [id |-> entry.record.id, episodic |-> entry.record.episodic,
     importance |-> entry.record.importance, metadata |-> entry.record.metadata]

FilteredReturn(s, queryText, k, filters) ==
    /\ Len(s.e.hot) <= MaxNodes
    /\ Len(s.e.warm) <= MaxNodes
    /\ Commit(s.e)
    /\ lastOp' = [OpRec("search") EXCEPT !.q = queryText, !.k = k, !.ok = s.ok,
                     !.result = s.result, !.filters = filters,
                     !.entries = [i \in 1..Len(s.entries) |-> filterFields(s.entries[i])]]
    /\ UNCHANGED <<initialized, locks, now, nextId, clearedAt, tasks>>

SearchFiltered(queryText, k, filters) ==
    /\ initialized
    /\ FilteredReturn(searchBody(Eng, queryText, k, FALSE, filters), queryText, k, filters)

NextFilters ==
    \/ Initialize
    \/ \E in \in CreateInputs : CreateMemoryRecord(in.text, in.importance)
    \/ \E in \in CreateInputs : StoreCold(in.text, in.importance)
    \/ \E queryText \in Texts, k \in Ks, filters \in FilterInputs :
          SearchFiltered(queryText, k, filters)
    \/ Tick

SpecFilters == Init /\ [][NextFilters]_vars

\* ------------------------------------------------------------------------
\* A promotion in progress, and the readers that run at its await points
\* ------------------------------------------------------------------------
\* the embedding the rescoring loop uses for candidate res
candidateEmbedding(e, res) ==
    IF res.embedding = NoEmbedding
    THEN reconstructEmbedding(e, res.metadata.id, res.metadata.currentTier)
    ELSE res.embedding

\* the record the rescoring loop builds for candidate res of a search that is
\* not simulated
candidateRecord(res, embedding) ==
    access(FromMeta(res.metadata, embedding,
                    IF res.metadata.currentTier = "NONE" THEN "HOT"
                    ELSE res.metadata.currentTier),
           FALSE)

\* the rescoring loop up to the first candidate that applyPromotion promotes
RECURSIVE promotionFrom(_, _, _)

promotionStep(results, i, acc, embedding) ==
    IF embedding # NoEmbedding /\ shouldPromote(candidateRecord(results[i], embedding))
    THEN [found |-> TRUE, i |-> i, acc |-> acc,
          r |-> candidateRecord(results[i], embedding)]
    ELSE promotionFrom(results, i + 1,
                       rescoreResult(acc, results[i], embedding, FALSE, NoFilters))

promotionFrom(results, i, acc) ==
    IF i > Len(results) \/ acc.failed
    THEN [found |-> FALSE, i |-> i, acc |-> acc, r |-> << >>]
    ELSE promotionStep(results, i, acc, candidateEmbedding(acc.e, results[i]))

\* applyPromotion up to its last await: the store entries are deleted, the HOT
\* node is not inserted yet
promotionDeletes(e, r) ==
    [e EXCEPT !.ws = IF StoreHas(e.ws, r.id) THEN StoreDelete(e.ws, r.id) ELSE e.ws,
              !.cs = IF StoreHas(e.cs, r.id) THEN StoreDelete(e.cs, r.id) ELSE e.cs]

PromotionAwaitReturn(p, results, queryText, k) ==
    /\ p.found
    /\ Commit(promotionDeletes(p.acc.e, p.r))
    /\ locks' = [locks EXCEPT !.search = TRUE]
    /\ tasks' = <<[kind |-> "search", pc |-> "promoting", q |-> queryText, k |-> k,
                   results |-> results, i |-> p.i, rescored |-> p.acc.rescored, r |-> p.r]>>
    /\ lastOp' = [OpRec("applyPromotion") EXCEPT !.id = p.r.id, !.err = "pending"]
    /\ UNCHANGED <<initialized, now, nextId, clearedAt>>

PromotionAwaitFrom(results, queryText, k) ==
    PromotionAwaitReturn(promotionFrom(results, 1,
                                       [e |-> Eng, rescored |-> << >>, failed |-> FALSE]),
                         results, queryText, k)

\* a search that is not simulated runs up to the last await of a promotion
SearchAwaitPromotion(queryText, k) ==
    /\ initialized
    /\ tasks = << >>
    /\ ~locks.search
    /\ PromotionAwaitFrom(candidates(Eng, embed(queryText), k, FALSE), queryText, k)

PromotionResumeReturn(t, s) ==
    /\ Len(s.e.hot) <= MaxNodes
    /\ Len(s.e.warm) <= MaxNodes
    /\ Commit(s.e)
    /\ locks' = [locks EXCEPT !.search = FALSE]
    /\ tasks' = << >>
    /\ lastOp' = [OpRec("search") EXCEPT !.q = t.q, !.k = t.k, !.ok = s.ok,
                                         !.result = s.result]
    /\ UNCHANGED <<initialized, now, nextId, clearedAt>>

\* the promotion inserts the HOT node and the search runs on to its return
PromotionResume(t) ==
    PromotionResumeReturn(t,
        searchRescored(
            rescoreFrom(t.results, t.i + 1,
                        rescoredEntry([e |-> Eng, rescored |-> t.rescored, failed |-> FALSE],
                                      t.results[t.i],
                                      determineSimulatedTier(Eng, t.r, FALSE),
                                      NoFilters),
                        FALSE, NoFilters),
            t.k, FALSE))

SearchResume ==
    /\ tasks # << >>
    /\ PromotionResume(tasks[1])

\* the record a reader is asked about: the one in transition, or the last created
watched == IF tasks # << >> THEN tasks[1].r.id ELSE nextId - 1

\* the tiers whose count in getStats() includes record id
statsTiers(e, id) ==
    (IF \E h \in LiveHandles(e.hot) : e.hot[h].metadata.id = id THEN {"HOT"} ELSE {})
    \cup (IF StoreHas(e.ws, id) THEN {"WARM"} ELSE {})
    \cup (IF StoreHas(e.cs, id) THEN {"COLD"} ELSE {})

\* the tiers under which getAllRecords() lists record id
listedTiers(records, id) ==
    {records[i].currentTier : i \in {j \in DOMAIN records : records[j].id = id}}

GetStats ==
    /\ initialized
    /\ lastOp' = [OpRec("getStats") EXCEPT !.id = watched, !.stats = getStats(Eng),
                                           !.tiers = statsTiers(Eng, watched),
                                           !.held = (tasks # << >>)]
    /\ Commit(Eng)
    /\ UNCHANGED <<initialized, locks, now, nextId, clearedAt, tasks>>

GetAllRecords ==
    /\ initialized
    /\ lastOp' = [OpRec("getAllRecords") EXCEPT !.id = watched,
                     !.tiers = listedTiers(getAllRecords(Eng), watched),
                     !.held = (tasks # << >>)]
    /\ Commit(Eng)
    /\ UNCHANGED <<initialized, locks, now, nextId, clearedAt, tasks>>

NextTransition ==
    \/ Initialize
    \/ tasks = << >> /\ \E in \in CreateInputs : CreateMemoryRecord(in.text, in.importance)
    \/ tasks = << >> /\ \E in \in CreateInputs : StoreCold(in.text, in.importance)
    \/ \E queryText \in Texts, k \in Ks : SearchAwaitPromotion(queryText, k)
    \/ SearchResume
    \/ GetStats
    \/ GetAllRecords
    \/ \E queryText \in Texts, k \in Ks : Search(queryText, k, TRUE)
    \/ tasks = << >> /\ Tick

SpecTransition == Init /\ [][NextTransition]_vars

\* ------------------------------------------------------------------------
\* Memory pressure
\* ------------------------------------------------------------------------
\* the demotion loop of the emergency cleanup from HOT node i of the snapshot
\* on; acc.failed when a step threw
RECURSIVE pressureDemoteFrom(_, _, _)

pressureDemote(hotMeta, i, acc, embedding) ==
    IF embedding = NoEmbedding THEN [acc EXCEPT !.failed = TRUE]
    ELSE pressureDemoteFrom(hotMeta, i + 1,
                            [acc EXCEPT !.e = applyDemotion(acc.e,
                                                  FromMeta(hotMeta[i], embedding, "HOT"),
                                                  FALSE).e])

pressureDemoteFrom(hotMeta, i, acc) ==
    IF i > Len(hotMeta) \/ acc.failed THEN acc
    ELSE IF hotMeta[i].usage_count < 5
    THEN pressureDemote(hotMeta, i, acc, reconstructEmbedding(acc.e, hotMeta[i].id, "HOT"))
    ELSE pressureDemoteFrom(hotMeta, i + 1, acc)

\* the steps after the loop, skipped when it threw
pressureCleanup(acc) == IF acc.failed THEN acc.e ELSE rotateJournal(compactHNSW(acc.e))

pressurePruned(e) ==
    pressureCleanup(pressureDemoteFrom(getAllMetadata(e.hot), 1, [e |-> e, failed |-> FALSE]))

handleCriticalMemoryPressure(e) == pressurePruned(prune(e, FALSE).e)

warningPruned(p) == IF Len(p.ids) > 0 THEN compactHNSW(p.e) ELSE p.e

handleWarningMemoryPressure(e) == warningPruned(prune(e, FALSE))

\* the memory check finds less than the critical, or less than the warning,
\* threshold remaining
CheckMemoryPressure(critical) ==
    /\ initialized
    /\ Commit(IF critical THEN handleCriticalMemoryPressure(Eng)
              ELSE handleWarningMemoryPressure(Eng))
    /\ Len(hnswWarm') <= MaxNodes
    /\ lastOp' = [OpRec("checkMemoryPressure") EXCEPT !.held = critical]
    /\ UNCHANGED <<initialized, locks, now, nextId, clearedAt, tasks>>

NextPressure ==
    \/ Initialize
    \/ \E in \in CreateInputs : CreateMemoryRecord(in.text, in.importance)
    \/ \E in \in CreateInputs : StoreCold(in.text, in.importance)
    \/ \E queryText \in Texts, k \in Ks : Search(queryText, k, FALSE)
    \/ \E critical \in BOOLEAN : CheckMemoryPressure(critical)
    \/ Tick

SpecPressure == Init /\ [][NextPressure]_vars

\* ------------------------------------------------------------------------
\* The periodic save in progress: one step per stretch between two awaits
\* ------------------------------------------------------------------------
\* the timer fires with mutations pending: save() hands the HOT index to its
\* persistence and awaits it; before is the count the callback found
AutoSaveHot ==
    /\ initialized
    /\ tasks = << >>
    /\ mutationsSinceLastSave > 0
    /\ savedHot' = [exists |-> TRUE, nodes |-> hnswHot]
    /\ tasks' = <<[pc |-> "saveWarm", before |-> mutationsSinceLastSave]>>
    /\ lastOp' = OpRec("save")
    /\ UNCHANGED <<hnswHot, hnswWarm, savedWarm, warmStore, coldStore, journalStore,
                   metaCounter, initialized, journalCounter, recordsSinceConsolidation,
                   deletionsSinceCompaction, mutationsSinceLastSave, locks, scheduled,
                   now, nextId, issued, clearedAt>>

\* the HOT index is persisted: save() hands over the WARM index and awaits
AutoSaveWarm ==
    /\ tasks # << >>
    /\ tasks[1].pc = "saveWarm"
    /\ savedWarm' = [exists |-> TRUE, nodes |-> hnswWarm]
    /\ tasks' = <<[tasks[1] EXCEPT !.pc = "reset"]>>
    /\ lastOp' = OpRec("save")
    /\ UNCHANGED <<hnswHot, hnswWarm, savedHot, warmStore, coldStore, journalStore,
                   metaCounter, initialized, journalCounter, recordsSinceConsolidation,
                   deletionsSinceCompaction, mutationsSinceLastSave, locks, scheduled,
                   now, nextId, issued, clearedAt>>

\* save() has returned: the callback resets the counter
AutoSaveReset ==
    /\ tasks # << >>
    /\ tasks[1].pc = "reset"
    /\ mutationsSinceLastSave' = 0
    /\ tasks' = << >>
    /\ lastOp' = [OpRec("autoSave") EXCEPT !.size = mutationsSinceLastSave - tasks[1].before]
    /\ UNCHANGED <<hnswHot, hnswWarm, savedHot, savedWarm, warmStore, coldStore,
                   journalStore, metaCounter, initialized, journalCounter,
                   recordsSinceConsolidation, deletionsSinceCompaction, locks, scheduled,
                   now, nextId, issued, clearedAt>>

NextSaving ==
    \/ Initialize
    \/ \E in \in CreateInputs : CreateMemoryRecord(in.text, in.importance)
    \/ AutoSaveHot
    \/ AutoSaveWarm
    \/ AutoSaveReset
    \/ tasks = << >> /\ Shutdown
    \/ tasks = << >> /\ Restart
    \/ Tick

SpecSaving == Init /\ [][NextSaving]_vars

\* ------------------------------------------------------------------------
\* Consolidation over several records of the same text
\* ------------------------------------------------------------------------
CreateRelated(text) ==
    /\ initialized
    /\ nextId <= MaxClusterRecords
    /\ Len(hnswWarm) < MaxClusterNodes
    /\ Commit(createMemoryRecord(Eng, nextId, text, 500))
    /\ nextId' = nextId + 1
    /\ lastOp' = [OpRec("createMemoryRecord") EXCEPT !.id = nextId, !.q = text,
                                                     !.prev = lastOp.name]
    /\ UNCHANGED <<initialized, locks, now, clearedAt, tasks>>

ConsolidateRelatedReturn(c, simulate) ==
    /\ Len(c.e.hot) <= MaxClusterNodes
    /\ Len(c.e.warm) <= MaxClusterNodes
    /\ Commit(c.e)
    /\ nextId' = IF c.updated = << >> THEN nextId ELSE nextId + 1
    /\ lastOp' = [OpRec("consolidate") EXCEPT
                     !.simulate = simulate, !.id = nextId,
                     !.result = [i \in 1..Len(c.updated) |-> c.updated[i].id],
                     !.prev = lastOp.name]

ConsolidateRelated(simulate) ==
    /\ initialized
    /\ ~locks.consolidate
    /\ nextId <= MaxClusterRecords + 1
    /\ ConsolidateRelatedReturn(consolidate(Eng, nextId, simulate), simulate)
    /\ UNCHANGED <<initialized, locks, now, clearedAt, tasks>>

NextCluster ==
    \/ Initialize
    \/ \E text \in Texts : CreateRelated(text)
    \/ \E simulate \in BOOLEAN : ConsolidateRelated(simulate)
    \/ \E queryText \in Texts, k \in Ks : Search(queryText, k, FALSE)
    \/ \E critical \in BOOLEAN : CheckMemoryPressure(critical)
    \/ Tick

SpecCluster == Init /\ [][NextCluster]_vars

\* the public operations and the timer-driven maintenance, without callers
\* that store records of their own making
NextOperations ==
    \/ Initialize
    \/ \E in \in CreateInputs : CreateMemoryRecord(in.text, in.importance)
    \/ \E queryText \in Texts, k \in Ks : Search(queryText, k, FALSE)
    \/ Consolidate(FALSE)
    \/ Prune(FALSE)
    \/ \E critical \in BOOLEAN : CheckMemoryPressure(critical)
    \/ Tick

SpecOperations == Init /\ [][NextOperations]_vars

\* ------------------------------------------------------------------------
\* Public operations called before initialize() has completed
\* ------------------------------------------------------------------------
PublicOps ==
    {"createMemoryRecord", "createMemoryRecords", "search", "consolidate", "prune",
     "verifyIntegrity", "getAllRecords", "getStats", "save", "export", "clear"}

\* a check that never throws
ensureInitialized_Skip == TRUE

\* ensureInitialized returns (TRUE) or throws (FALSE)
ensureInitialized == initialized

\* what the statements after ensureInitialized() do to the engine
publicBody(e, op) ==
    CASE op = "createMemoryRecord" -> createMemoryRecord(e, nextId, BatchTexts[1], 500)
      [] op = "createMemoryRecords" ->
             createMemoryRecords(e, nextId, nextId + 1, BatchTexts[1], BatchTexts[2], 500)
      [] op = "search" -> searchBody(e, BatchTexts[1], 1, FALSE, NoFilters).e
      [] op = "consolidate" -> consolidate(e, nextId, FALSE).e
      [] op = "prune" -> prune(e, FALSE).e
      [] op = "verifyIntegrity" -> verifyIntegrity(e).e
      [] op = "save" -> save(e)
      [] op = "clear" -> clear(e)
      [] OTHER -> e

\* a public operation is called while initialized is false
CallUninitialized(op) ==
    /\ ~initialized
    /\ Commit(IF ensureInitialized THEN publicBody(Eng, op) ELSE Eng)
    /\ lastOp' = [OpRec(op) EXCEPT !.ok = ensureInitialized,
                     !.err = IF ensureInitialized THEN "none" ELSE "NotInitialized"]
    /\ UNCHANGED <<initialized, locks, now, nextId, clearedAt, tasks>>

NextInit ==
    \/ Initialize
    \/ Restart
    \/ \E in \in CreateInputs : CreateMemoryRecord(in.text, in.importance)
    \/ \E queryText \in Texts, k \in Ks : Search(queryText, k, FALSE)
    \/ Save
    \/ \E op \in PublicOps : CallUninitialized(op)

SpecInit == Init /\ [][NextInit]_vars

\* ------------------------------------------------------------------------
\* Locks: callers that wait for the search lock, and operations that skip
\* ------------------------------------------------------------------------
InitLocks ==
    /\ hnswHot = EmptyIndex /\ hnswWarm = EmptyIndex
    /\ savedHot = NotSaved /\ savedWarm = NotSaved
    /\ warmStore = EmptyStore /\ coldStore = EmptyStore /\ journalStore = EmptyStore
    /\ metaCounter = 0
    /\ initialized = FALSE
    /\ journalCounter = 0
    /\ recordsSinceConsolidation = 0
    /\ deletionsSinceCompaction = 0
    /\ mutationsSinceLastSave = 0
    /\ locks = NoLocks
    /\ scheduled = {}
    /\ now = 0
    /\ nextId = 1
    /\ issued = << >>
    /\ clearedAt = 0
    /\ lastOp = OpRec("none")
    /\ tasks = [i \in 1..MaxCallers |-> Idle]

EngineFrame ==
    UNCHANGED <<hnswHot, hnswWarm, savedHot, savedWarm, warmStore, coldStore, journalStore,
                metaCounter, journalCounter, recordsSinceConsolidation,
                deletionsSinceCompaction, mutationsSinceLastSave, scheduled, issued>>

\* no continuation runs between the end of _waitForLock and the caller's next
\* statement
MicrotaskPending_Never == FALSE

\* the loop of _waitForLock of some caller has ended and the caller's
\* continuation is queued: it runs before any other task of the event loop
MicrotaskPending == \E i \in DOMAIN tasks : tasks[i].pc = "woken"

\* the test of a lock that never finds it held
lockHeld_Never(name) == FALSE

lockHeld(name) == locks[name]

\* search is called: it waits when the search lock is held, unless it simulates
InvokeSearch(i, queryText, k, simulate) ==
    /\ initialized
    /\ ~MicrotaskPending
    /\ FreeSlot(i)
    /\ IF lockHeld("search") /\ ~simulate
       THEN /\ tasks' = [tasks EXCEPT ![i] = [Idle EXCEPT !.kind = "search", !.pc = "waiting",
                             !.q = queryText, !.k = k, !.simulate = simulate]]
            /\ UNCHANGED locks
       ELSE /\ tasks' = [tasks EXCEPT ![i] = [Idle EXCEPT !.kind = "search", !.pc = "embed",
                             !.q = queryText, !.k = k, !.simulate = simulate]]
            /\ locks' = IF simulate THEN locks ELSE [locks EXCEPT !.search = TRUE]
    /\ lastOp' = [OpRec("searchCall") EXCEPT !.q = queryText, !.k = k, !.simulate = simulate,
                                             !.held = locks.search]
    /\ EngineFrame
    /\ UNCHANGED <<nextId>>
    /\ ConcFrame

\* the timer of a waiting caller fires and the loop finds the lock free
SearchPoll(i) ==
    /\ ~MicrotaskPending
    /\ tasks[i].kind = "search" /\ tasks[i].pc = "waiting"
    /\ ~locks.search
    /\ tasks' = [tasks EXCEPT ![i].pc = "woken"]
    /\ lastOp' = OpRec("searchPoll")
    /\ EngineFrame
    /\ UNCHANGED <<locks, nextId>>
    /\ ConcFrame

\* a timeout that clears the lock on its way out
SearchWaitTimeout_Releases(i) ==
    /\ ~MicrotaskPending
    /\ tasks[i].kind = "search" /\ tasks[i].pc = "waiting"
    /\ locks.search
    /\ tasks' = [tasks EXCEPT ![i] = Idle]
    /\ lastOp' = [OpRec("search") EXCEPT !.q = tasks[i].q, !.k = tasks[i].k, !.ok = FALSE,
                                         !.err = "LockTimeout", !.held = TRUE]
    /\ locks' = [locks EXCEPT !.search = FALSE]
    /\ EngineFrame
    /\ UNCHANGED <<nextId>>
    /\ ConcFrame

\* the timer fires after maxWait with the lock still held: the call throws
SearchWaitTimeout(i) ==
    /\ ~MicrotaskPending
    /\ tasks[i].kind = "search" /\ tasks[i].pc = "waiting"
    /\ locks.search
    /\ tasks' = [tasks EXCEPT ![i] = Idle]
    /\ lastOp' = [OpRec("search") EXCEPT !.q = tasks[i].q, !.k = tasks[i].k, !.ok = FALSE,
                                         !.err = "LockTimeout", !.held = TRUE]
    /\ EngineFrame
    /\ UNCHANGED <<locks, nextId>>
    /\ ConcFrame

\* the caller continues after _waitForLock and takes the lock
SearchAcquire(i) ==
    /\ tasks[i].kind = "search" /\ tasks[i].pc = "woken"
    /\ tasks' = [tasks EXCEPT ![i].pc = "embed"]
    /\ locks' = [locks EXCEPT !.search = TRUE]
    /\ lastOp' = [OpRec("searchAcquire") EXCEPT !.held = locks.search]
    /\ EngineFrame
    /\ UNCHANGED <<nextId>>
    /\ ConcFrame

SearchFinish(i) ==
    /\ ~MicrotaskPending
    /\ SearchRun(i)

\* An operation that holds its own lock from its call to its return is in
\* progress exactly while the lock is set: its call sets the lock, and its
\* body runs when its awaits have returned.

\* the operations in progress; at most MaxTasks are modelled at once
InProgress == {name \in DOMAIN locks : locks[name]}

CanStart(name) == lockHeld(name) \/ Cardinality(InProgress) < MaxTasks

\* search is called without simulate: it waits when the search lock is held
\* (the caller then tries again), else it takes the lock
SearchCall ==
    /\ initialized
    /\ CanStart("search")
    /\ locks' = IF lockHeld("search") THEN locks ELSE [locks EXCEPT !.search = TRUE]
    /\ lastOp' = [OpRec("searchCall") EXCEPT !.held = locks.search,
                     !.err = IF lockHeld("search") THEN "waiting" ELSE "pending"]
    /\ EngineFrame
    /\ UNCHANGED <<initialized, now, nextId, clearedAt, tasks>>

\* the body of the operation name has left the engine as e and returned result
OpDone(e, name, result) ==
    /\ Len(e.hot) <= MaxNodes
    /\ Len(e.warm) <= MaxNodes
    /\ Commit(e)
    /\ lastOp' = [OpRec(name) EXCEPT !.result = result]
    /\ locks' = [locks EXCEPT ![name] = FALSE]

SearchDone(s) == OpDone(s.e, "search", s.result)

\* the search in progress gets its embedding, runs and releases the lock
SearchComplete(queryText, k) ==
    /\ locks.search
    /\ SearchDone(searchBody(Eng, queryText, k, FALSE, NoFilters))
    /\ UNCHANGED <<initialized, now, nextId, clearedAt, tasks>>

\* a whole search with simulate = true: it does not wait for the search lock
\* and neither sets nor clears it
SearchSimulated(queryText, k) ==
    /\ initialized
    /\ ~(lockHeld("search") /\ ~TRUE)
    /\ SearchReturn(searchBody(Eng, queryText, k, TRUE, NoFilters), queryText, k, TRUE, 0)
    /\ UNCHANGED <<initialized, locks, now, nextId, clearedAt, tasks>>

\* consolidate is called: it returns the empty list when its lock is held
ConsolidateCall ==
    /\ initialized
    /\ CanStart("consolidate")
    /\ journalCounter < MaxJournal
    /\ locks' = IF lockHeld("consolidate") THEN locks ELSE [locks EXCEPT !.consolidate = TRUE]
    /\ lastOp' = [OpRec("consolidate") EXCEPT !.held = locks.consolidate,
                     !.prev = IF lockHeld("consolidate") THEN lastOp.name ELSE "none",
                     !.err = IF lockHeld("consolidate") THEN "none" ELSE "pending"]
    /\ EngineFrame
    /\ UNCHANGED <<initialized, now, nextId, clearedAt, tasks>>

ConsolidateDone(c) ==
    /\ OpDone(c.e, "consolidate", [i \in 1..Len(c.updated) |-> c.updated[i].id])
    /\ nextId' = IF c.updated = << >> THEN nextId ELSE nextId + 1

ConsolidateFinish(simulate) ==
    /\ locks.consolidate
    /\ ConsolidateDone(consolidate(Eng, nextId, simulate))
    /\ UNCHANGED <<initialized, now, clearedAt, tasks>>

\* prune whose _compactHNSW finds the compact lock held
pruneCompactHeld(p, simulate) ==
    IF ~simulate /\ Len(p.ids) > 0 THEN [e |-> trackMutation(p.e), ids |-> p.ids] ELSE p

\* prune is called: it returns the empty list when its lock is held
PruneCall ==
    /\ initialized
    /\ CanStart("prune")
    /\ locks' = IF lockHeld("prune") THEN locks ELSE [locks EXCEPT !.prune = TRUE]
    /\ lastOp' = [OpRec("prune") EXCEPT !.held = locks.prune,
                     !.err = IF lockHeld("prune") THEN "none" ELSE "pending"]
    /\ EngineFrame
    /\ UNCHANGED <<initialized, now, nextId, clearedAt, tasks>>

PruneDone(p) == OpDone(p.e, "prune", p.ids)

PruneFinish(simulate) ==
    /\ locks.prune
    /\ PruneDone(IF lockHeld("compact")
                 THEN pruneCompactHeld(pruneFrom(getAll(coldStore), 1,
                                                 [e |-> Eng, ids |-> << >>], simulate),
                                       simulate)
                 ELSE prune(Eng, simulate))
    /\ UNCHANGED <<initialized, now, nextId, clearedAt, tasks>>

\* _compactHNSW is called by a memory-pressure handler or by the task that
\* quarantine scheduled: it returns when its lock is held, else it compacts
\* and waits for save
CompactCall ==
    /\ initialized
    /\ CanStart("compact")
    /\ IF lockHeld("compact")
       THEN /\ UNCHANGED locks
            /\ EngineFrame
       ELSE /\ locks' = [locks EXCEPT !.compact = TRUE]
            /\ Commit([Eng EXCEPT !.hot = compact(hnswHot), !.warm = compact(hnswWarm),
                                  !.dsc = 0])
    /\ lastOp' = [OpRec("compact") EXCEPT !.held = locks.compact,
                     !.err = IF lockHeld("compact") THEN "none" ELSE "pending"]
    /\ UNCHANGED <<initialized, now, nextId, clearedAt, tasks>>

CompactFinish ==
    /\ locks.compact
    /\ OpDone(save(Eng), "compact", << >>)
    /\ UNCHANGED <<initialized, now, nextId, clearedAt, tasks>>

\* consolidate, prune or _compactHNSW is called by caller i: it returns at
\* once when its lock is held, else it takes the lock and runs up to its first
\* await (the compaction itself comes before the await of save)
MaintenanceCall(i, name) ==
    /\ initialized
    /\ ~MicrotaskPending
    /\ FreeSlot(i)
    /\ IF lockHeld(name)
       THEN /\ UNCHANGED <<locks, tasks>>
            /\ EngineFrame
       ELSE /\ locks' = [locks EXCEPT ![name] = TRUE]
            /\ tasks' = [tasks EXCEPT ![i] = [Idle EXCEPT !.kind = name, !.pc = "running"]]
            /\ IF name = "compact"
               THEN Commit([Eng EXCEPT !.hot = compact(hnswHot), !.warm = compact(hnswWarm),
                                      !.dsc = 0])
               ELSE EngineFrame
    /\ lastOp' = [OpRec(name) EXCEPT !.held = locks[name],
                     !.err = IF lockHeld(name) THEN "none" ELSE "pending"]
    /\ UNCHANGED <<nextId>>
    /\ ConcFrame

\* the engine as the body of the operation in progress leaves it
maintenanceBody(name) ==
    IF name = "consolidate" THEN consolidate(Eng, nextId, FALSE).e
    ELSE IF name = "prune"
    THEN (IF lockHeld("compact")
          THEN pruneCompactHeld(pruneFrom(getAll(coldStore), 1,
                                          [e |-> Eng, ids |-> << >>], FALSE), FALSE).e
          ELSE prune(Eng, FALSE).e)
    ELSE save(Eng)

\* the operation of caller i runs to its end and its finally clears the lock
MaintenanceFinish(i) ==
    /\ ~MicrotaskPending
    /\ tasks[i].pc = "running"
    /\ tasks[i].kind = "consolidate" => journalCounter < MaxJournal
    /\ Len(maintenanceBody(tasks[i].kind).hot) <= MaxNodes
    /\ Len(maintenanceBody(tasks[i].kind).warm) <= MaxNodes
    /\ Commit(maintenanceBody(tasks[i].kind))
    /\ locks' = [locks EXCEPT ![tasks[i].kind] = FALSE]
    /\ tasks' = [tasks EXCEPT ![i] = Idle]
    /\ nextId' = IF tasks[i].kind = "consolidate" /\ StoreCount(warmStore) >= 2
                 THEN nextId + 1 ELSE nextId
    /\ lastOp' = OpRec(tasks[i].kind)
    /\ ConcFrame

\* searches and maintenance operations in progress together, over records
\* written while none is
NextRelease ==
    \/ Initialize
    \/ (\A i \in DOMAIN tasks : tasks[i] = Idle) /\ CreateMemoryRecord(2, 900)
    \/ \E i \in 1..MaxCallers, k \in Ks : InvokeSearch(i, 2, k, FALSE)
    \/ \E i \in 1..MaxCallers : SearchPoll(i)
    \/ \E i \in 1..MaxCallers : SearchWaitTimeout(i)
    \/ \E i \in 1..MaxCallers : SearchAcquire(i)
    \/ \E i \in 1..MaxCallers : SearchFinish(i)
    \/ \E i \in 1..MaxCallers, name \in {"consolidate", "prune", "compact"} :
          MaintenanceCall(i, name)
    \/ \E i \in 1..MaxCallers : MaintenanceFinish(i)

SpecRelease == InitLocks /\ [][NextRelease]_vars

\* callers of search that wait for the lock of the search in progress
NextLocks ==
    \/ Initialize
    \/ \E in \in CreateInputs : ~MicrotaskPending /\ CreateMemoryRecord(in.text, in.importance)
    \/ \E i \in 1..MaxCallers, queryText \in Texts, k \in Ks :
          InvokeSearch(i, queryText, k, FALSE)
    \/ \E i \in 1..MaxCallers : SearchPoll(i)
    \/ \E i \in 1..MaxCallers : SearchWaitTimeout(i)
    \/ \E i \in 1..MaxCallers : SearchAcquire(i)
    \/ \E i \in 1..MaxCallers : SearchFinish(i)

SpecLocks == InitLocks /\ [][NextLocks]_vars

\* simulated searches over records of all tiers, also while a search that
\* does not simulate is in progress
NextSimulate ==
    \/ Initialize
    \/ \E in \in CreateInputs : CreateMemoryRecord(in.text, in.importance)
    \/ \E in \in CreateInputs : StoreCold(in.text, in.importance)
    \/ SearchCall
    \/ \E queryText \in Texts, k \in Ks : SearchComplete(queryText, k)
    \/ \E queryText \in Texts, k \in Ks : SearchSimulated(queryText, k)
    \/ Tick

SpecSimulate == Init /\ [][NextSimulate]_vars

\* consolidate, prune and compaction called while they are in progress, and
\* searches meanwhile
NextSkip ==
    \/ Initialize
    \/ \E in \in CreateInputs : CreateMemoryRecord(in.text, in.importance)
    \/ StoreCold(BatchTexts[1], 500)
    \/ SearchCall
    \/ \E k \in Ks : SearchComplete(BatchTexts[1], k)
    \/ ConsolidateCall
    \/ ConsolidateFinish(FALSE)
    \/ PruneCall
    \/ PruneFinish(FALSE)
    \/ CompactCall
    \/ CompactFinish
    \/ Tick

SpecSkip == Init /\ [][NextSkip]_vars

\* ------------------------------------------------------------------------
\* Properties
\* ------------------------------------------------------------------------
HotIds(e) == {e.hot[h].metadata.id : h \in LiveHandles(e.hot)}
WarmIndexIds(e) == {e.warm[h].metadata.id : h \in LiveHandles(e.warm)}
PresentIds(e) == HotIds(e) \cup WarmIndexIds(e) \cup DOMAIN e.ws \cup DOMAIN e.cs

InHotOnly(e, id) ==
    id \in HotIds(e) /\ id \notin WarmIndexIds(e) /\ id \notin DOMAIN e.ws /\ id \notin DOMAIN e.cs
InWarmOnly(e, id) ==
    id \notin HotIds(e) /\ id \in WarmIndexIds(e) /\ id \in DOMAIN e.ws /\ id \notin DOMAIN e.cs
InColdOnly(e, id) ==
    id \notin HotIds(e) /\ id \notin WarmIndexIds(e) /\ id \notin DOMAIN e.ws /\ id \in DOMAIN e.cs

\* C1: between operations every record that is stored anywhere is in exactly
\* the storage backing one tier: a live HOT node, or a WARM store entry with a
\* live WARM node, or a COLD store entry
C1_ExactlyOneTier ==
    initialized => \A id \in PresentIds(Eng) :
        InHotOnly(Eng, id) \/ InWarmOnly(Eng, id) \/ InColdOnly(Eng, id)

ImportanceOf(e, id) ==
    LET ms == {e.hot[h].metadata : h \in {g \in LiveHandles(e.hot) : e.hot[g].metadata.id = id}}
              \cup {e.warm[h].metadata : h \in {g \in LiveHandles(e.warm) : e.warm[g].metadata.id = id}}
    IN IF ms = {} THEN 1000 ELSE (CHOOSE m \in ms : TRUE).importance

\* C3: after U_hot consecutive non-simulated searches that each returned a
\* record of importance below I_hot, the record is counted in hot and not in warm
C3_PromotedAfterUhotSearches ==
    (/\ lastOp.name = "search"
     /\ lastOp.streak >= U_hot
     /\ ImportanceOf(Eng, lastOp.result[1]) < I_hot)
    => (lastOp.result[1] \in HotIds(Eng) /\ lastOp.result[1] \notin DOMAIN warmStore)

IssuedSinceClear == {i \in 1..Len(issued) : i > clearedAt}

CoreStats(st) == <<st.journalCounter, st.hot, st.warm, st.cold, st.total>>

\* C8: initialize() after a restart that directly follows a completed save()
\* reports the journal counter and the tier counts of before the restart
C8_StatsSurviveRestart ==
    (lastOp.name = "initialize" /\ lastOp.prev = "save")
    => CoreStats(getStats(Eng)) = CoreStats(lastOp.stats)

C8_Witness ==
    /\ lastOp.name = "initialize" /\ lastOp.prev = "save"
    /\ lastOp.stats.hot >= 1 /\ lastOp.stats.warm >= 1 /\ lastOp.stats.journalCounter >= 2

RECURSIVE SeqIds(_)
SeqIds(records) ==
    IF records = << >> THEN {} ELSE {Head(records).id} \cup SeqIds(Tail(records))

\* C9: after a restart without save() that follows a completed
\* createMemoryRecord, initialize() brings the record back into its tier
C9_JournalReplayed ==
    (lastOp.name = "initialize" /\ lastOp.prev = "createMemoryRecord")
    => /\ lastOp.prevId \in SeqIds(getAllRecords(Eng))
       /\ InWarmOnly(Eng, lastOp.prevId)

\* C10: verifyIntegrity returns exactly the ids whose text was rewritten in the WARM store
C10_ReportsMutatedIds ==
    lastOp.name = "verifyIntegrity" => {lastOp.result[i] : i \in 1..Len(lastOp.result)} = lastOp.expect

\* C11: a verifyIntegrity() that directly follows another returns the empty
\* list, and no id a verifyIntegrity() returned is left in the HOT index, the
\* WARM index, the WARM store or the COLD store
C11_QuarantineIdempotent ==
    lastOp.name = "verifyIntegrity" =>
        /\ (lastOp.prev = "verifyIntegrity" => lastOp.result = << >>)
        /\ \A i \in 1..Len(lastOp.result) : lastOp.result[i] \notin PresentIds(Eng)

Range(seq) == {seq[i] : i \in 1..Len(seq)}

LiveNodes(index) == [h \in LiveHandles(index) |-> index[h]]

C14_ConsolidateDryRun ==
    [][(lastOp'.name = "consolidate" /\ lastOp'.simulate) =>
          UNCHANGED <<journalStore, journalCounter, warmStore, coldStore, hnswHot, hnswWarm,
                      recordsSinceConsolidation, mutationsSinceLastSave>>]_vars

\* C15: prune(true) returns exactly the ids that prune(false) deletes from the
\* COLD store of the same state, and changes neither the COLD store, the
\* indexes and their saved copies, deletionsSinceCompaction,
\* mutationsSinceLastSave nor the scheduled compaction and save (the step is
\* the prune(true) itself: time does not pass in it)
C15_PruneDryRun ==
    [][(lastOp'.name = "prune" /\ lastOp'.simulate /\ now' = now) =>
          /\ Range(lastOp'.result) = DOMAIN coldStore \ DOMAIN prune(Eng, FALSE).e.cs
          /\ lastOp'.result = prune(Eng, FALSE).ids
          /\ UNCHANGED <<coldStore, warmStore, hnswHot, hnswWarm, savedHot, savedWarm,
                         deletionsSinceCompaction, mutationsSinceLastSave, scheduled>>]_vars

\* a prune(true) has returned some but not all of the COLD records, and they
\* are still stored
C15_Witness ==
    /\ lastOp.name = "prune"
    /\ lastOp.simulate
    /\ lastOp.result # << >>
    /\ Range(lastOp.result) \subseteq DOMAIN coldStore
    /\ Range(lastOp.result) # DOMAIN coldStore

\* C18: after a non-simulated consolidate() that found a cluster, one new
\* record with episodic = false, importance 0.7 and member_count equal to the
\* cluster size is in the journal and in the WARM store, and every member read
\* through getAllRecords carries the cluster's id and 0.8 times the importance
\* the WARM store held for it before the pass
C18_ConsolidateCluster ==
    (lastOp.name = "consolidate" /\ ~lastOp.simulate /\ lastOp.result # << >>) =>
        /\ lastOp.id \in DOMAIN warmStore
        /\ lastOp.id \in JournaledIds(Eng)
        /\ warmStore[lastOp.id].episodic = FALSE
        /\ warmStore[lastOp.id].importance = 700
        /\ warmStore[lastOp.id].metadata.member_count = lastOp.size
        /\ lastOp.size = Cardinality(lastOp.members)
        /\ \A id \in lastOp.members :
              /\ id \in SeqIds(getAllRecords(Eng))
              /\ \A i \in 1..Len(getAllRecords(Eng)) :
                    getAllRecords(Eng)[i].id = id =>
                        /\ getAllRecords(Eng)[i].semantic_cluster_id = lastOp.cluster
                        /\ getAllRecords(Eng)[i].importance = (lastOp.before[id] * 8) \div 10

\* C19: a non-simulated search() leaves the usage_count that the WARM store,
\* the COLD store and the live index nodes hold for a record at least as large
\* as it was before the search
C19_UsageNeverLowered ==
    [][(lastOp'.name = "search" /\ ~lastOp'.simulate) =>
          /\ \A id \in DOMAIN warmStore \cap DOMAIN warmStore' :
                warmStore'[id].usage_count >= warmStore[id].usage_count
          /\ \A id \in DOMAIN coldStore \cap DOMAIN coldStore' :
                coldStore'[id].usage_count >= coldStore[id].usage_count
          /\ \A h \in LiveHandles(hnswHot) \cap LiveHandles(hnswHot') :
                hnswHot'[h].metadata.usage_count >= hnswHot[h].metadata.usage_count
          /\ \A h \in LiveHandles(hnswWarm) \cap LiveHandles(hnswWarm') :
                hnswWarm'[h].metadata.usage_count >= hnswWarm[h].metadata.usage_count]_vars

SearchHolders ==
    {i \in DOMAIN tasks : tasks[i].kind = "search" /\ ~tasks[i].simulate /\ tasks[i].pc = "embed"}

\* C16: at most one search that does not simulate is between taking and
\* releasing the search lock, and the lock is held exactly while there is one
C16_SingleSearch ==
    /\ Cardinality(SearchHolders) <= 1
    /\ locks.search <=> SearchHolders # {}

\* a caller that waited holds the lock while another caller still waits
C16_Witness ==
    /\ lastOp.name = "searchAcquire"
    /\ SearchHolders # {}
    /\ \E i \in DOMAIN tasks : tasks[i].kind = "search" /\ tasks[i].pc = "waiting"

C20_NotInitialized ==
    [][(~initialized /\ lastOp'.name \in PublicOps) =>
          /\ ~lastOp'.ok
          /\ lastOp'.err = "NotInitialized"
          /\ EngineFrame
          /\ UNCHANGED <<locks, initialized>>]_vars

\* clear() was called after a restart, before initialize(): it failed and the
\* stored and saved data are still there
C20_Witness ==
    /\ ~initialized
    /\ lastOp.name = "clear"
    /\ lastOp.err = "NotInitialized"
    /\ warmStore # EmptyStore
    /\ journalStore # EmptyStore
    /\ savedWarm.exists

\* C21: a createMemoryRecord in which a step of the write path failed does not
\* report success, and a createMemoryRecord that reports success has written
\* the journal entry of its record
C21_WriteErrorsSurface ==
    [][lastOp'.name = "createMemoryRecord" =>
          /\ lastOp'.fault # "none" => ~lastOp'.ok
          /\ lastOp'.ok =>
                \E j \in DOMAIN journalStore' : journalStore'[j].record.id = lastOp'.id]_vars

\* the first attempt among the first n that the encoder answers, 0 when none
FirstAnswer(outcomes, n) ==
    IF \E i \in 1..n : outcomes[i]
    THEN CHOOSE i \in 1..n : outcomes[i] /\ \A j \in 1..(i - 1) : ~outcomes[j]
    ELSE 0

\* C22 as stated: an encoder call is attempted once and retried up to 3 times,
\* after waits of 1 s, 2 s and 4 s; it fails only after the fourth attempt
\* failed, and it stops at the first attempt that is answered
C22_ThreeRetries ==
    (lastOp.name = "createMemoryRecord" /\ lastOp.outcomes # << >>) =>
        IF FirstAnswer(lastOp.outcomes, 4) = 0
        THEN /\ lastOp.err = "EncoderFailure"
             /\ lastOp.attempts = 4
             /\ lastOp.delays = <<1000, 2000, 4000>>
        ELSE /\ lastOp.err = "none"
             /\ lastOp.attempts = FirstAnswer(lastOp.outcomes, 4)
             /\ lastOp.delays = SubSeq(<<1000, 2000, 4000>>, 1, lastOp.attempts - 1)

\* C22 amended: an encoder call is attempted up to 3 times in all, after waits
\* of 1 s and 2 s before the second and the third attempt; it fails only after
\* the third attempt failed, and it stops at the first attempt that is answered
C22_ThreeAttempts ==
    (lastOp.name = "createMemoryRecord" /\ lastOp.outcomes # << >>) =>
        IF FirstAnswer(lastOp.outcomes, 3) = 0
        THEN /\ lastOp.err = "EncoderFailure"
             /\ lastOp.attempts = 3
             /\ lastOp.delays = <<1000, 2000>>
        ELSE /\ lastOp.err = "none"
             /\ lastOp.attempts = FirstAnswer(lastOp.outcomes, 3)
             /\ lastOp.delays = SubSeq(<<1000, 2000>>, 1, lastOp.attempts - 1)

\* a createMemoryRecord failed after three attempts although the encoder would
\* have answered a fourth, with a record stored before
C22_Witness ==
    /\ lastOp.name = "createMemoryRecord"
    /\ lastOp.err = "EncoderFailure"
    /\ lastOp.attempts = 3
    /\ lastOp.delays = <<1000, 2000>>
    /\ lastOp.outcomes[4]
    /\ warmStore # EmptyStore

\* C26: every stored record has a vector of embedDim components, and a
\* createMemoryRecord or createMemoryRecords given a vector of another length
\* fails and writes nothing to the journal, the WARM index and the WARM store
C26_DimensionValidated ==
    [][/\ \A id \in DOMAIN warmStore' : warmStore'[id].embedding.len = embedDim
       /\ \A id \in DOMAIN coldStore' : coldStore'[id].embedding.len = embedDim
       /\ (/\ lastOp'.name \in {"createMemoryRecord", "createMemoryRecords"}
           /\ \/ lastOp'.len \notin {0, embedDim}
              \/ lastOp'.len2 \notin {0, embedDim}) =>
              /\ ~lastOp'.ok
              /\ UNCHANGED <<journalStore, hnswWarm, warmStore>>]_vars

\* C23: when shutdown() has completed, the persisted HOT and WARM indexes are
\* the indexes in memory: every insert, soft-delete and metadata update made
\* before is in them
C23_ShutdownPersists ==
    lastOp.name = "shutdown" =>
        /\ persistedIndex(savedHot) = hnswHot
        /\ persistedIndex(savedWarm) = hnswWarm

\* the ids of the records created before the last clear(): records get the ids
\* 1, 2, ... as they are created, one journal put each, and clearedAt counts
\* the puts made before the clear
CreatedBeforeClear == 1..clearedAt

\* C24: once clear() has completed, getAllRecords and search return no record
\* created before it, and getStats() reports total 0 as long as nothing has been
\* created since, also after a restart and initialize()
C24_ClearedStaysCleared ==
    initialized =>
        /\ \A i \in DOMAIN getAllRecords(Eng) :
              getAllRecords(Eng)[i].id \notin CreatedBeforeClear
        /\ lastOp.name = "search" => Range(lastOp.result) \cap CreatedBeforeClear = {}
        /\ (clearedAt > 0 /\ nextId = clearedAt + 1) => getStats(Eng).total = 0

\* C25: every entry a search returns satisfies each filter of its options: the
\* episodic filter, the minimum importance and equality on a metadata key
C25_ResultsPassFilters ==
    lastOp.name = "search" =>
        \A i \in DOMAIN lastOp.entries :
            /\ lastOp.filters.hasEpisodic =>
                  lastOp.entries[i].episodic = lastOp.filters.episodic
            /\ lastOp.entries[i].importance >= lastOp.filters.minImportance
            /\ lastOp.filters.hasKey =>
                  lastOp.entries[i].metadata.member_count = lastOp.filters.member_count

\* the live nodes of an index that belong to record id, with their handles
NodesOf(index, id) ==
    {[h |-> h, node |-> index[h]] : h \in {g \in LiveHandles(index) : index[g].metadata.id = id}}

\* the entry of record id in a store, as a set: empty when it has none
EntryOf(store, id) == IF id \in DOMAIN store THEN {store[id]} ELSE {}

\* C30: a search that is not simulated leaves every record that is not in its
\* returned top k as it was: its store entries and its live index nodes
C30_OnlyTopKChanged ==
    [][(lastOp'.name = "search" /\ ~lastOp'.simulate /\ lastOp'.ok) =>
          \A id \in 1..MaxRecords :
              id \notin Range(lastOp'.result) =>
                  /\ EntryOf(warmStore', id) = EntryOf(warmStore, id)
                  /\ EntryOf(coldStore', id) = EntryOf(coldStore, id)
                  /\ NodesOf(hnswHot', id) = NodesOf(hnswHot, id)
                  /\ NodesOf(hnswWarm', id) = NodesOf(hnswWarm, id)]_vars

\* C27: a getStats(), a getAllRecords() or a simulated search that runs at an
\* await point of a promotion finds the record in exactly one tier
C27_ReadersSeeOneTier ==
    (tasks # << >> /\ tasks[1].pc = "promoting") =>
        /\ lastOp.name \in {"getStats", "getAllRecords"} => Cardinality(lastOp.tiers) = 1
        /\ lastOp.name = "search" => lastOp.ok

\* every record the engine holds: the store entries and the metadata of the
\* live index nodes
HeldRecords ==
    {warmStore[id] : id \in DOMAIN warmStore}
    \cup {coldStore[id] : id \in DOMAIN coldStore}
    \cup {FromMeta(hnswHot[h].metadata, hnswHot[h].vec, "HOT") : h \in LiveHandles(hnswHot)}
    \cup {FromMeta(hnswWarm[h].metadata, hnswWarm[h].vec, "WARM") : h \in LiveHandles(hnswWarm)}

C29_WarmHandleTracked ==
    /\ \A id \in DOMAIN warmStore :
          /\ warmStore[id].hnswWarmId # NULL
          /\ warmStore[id].hnswWarmId \in 1..Len(hnswWarm)
          /\ hnswWarm[warmStore[id].hnswWarmId].metadata.id = id
    /\ \A h \in LiveHandles(hnswWarm) :
          FromMeta(hnswWarm[h].metadata, hnswWarm[h].vec, "WARM").hnswWarmId = h

\* the nodes of an index that a step soft-deletes
SoftDeletedBy(old, new) == {h \in 1..Len(old) : ~old[h].deleted /\ new[h].deleted}

\* C31: a search, a consolidation or an integrity verification raises
\* deletionsSinceCompaction by one for every index node it soft-deletes, and
\* a compaction is scheduled when the counter so reaches compactionThreshold
C31_DeletionsCounted ==
    [][(lastOp'.name \in {"search", "consolidate", "verifyIntegrity"} /\ now' = now
        /\ lastOp' # lastOp) =>
          /\ deletionsSinceCompaction' >= deletionsSinceCompaction
                + Cardinality(SoftDeletedBy(hnswHot, hnswHot'))
                + Cardinality(SoftDeletedBy(hnswWarm, hnswWarm'))
          /\ (deletionsSinceCompaction' > deletionsSinceCompaction
               /\ deletionsSinceCompaction' >= compactionThreshold
                 => "compactHNSW" \in scheduled')]_vars

\* an index as a compaction leaves it
Compacted(index) == \A h \in 1..Len(index) : index[h].deleted => index[h] = Tombstone

\* C32: a memory check under critical pressure ends with the indexes
\* compacted and saved and the journal rotated, after its prune and its
\* demotions, whatever the HOT index holds
C32_AllFourSteps ==
    [][(lastOp'.name = "checkMemoryPressure" /\ lastOp'.held /\ now' = now) =>
          /\ Compacted(hnswHot') /\ Compacted(hnswWarm')
          /\ deletionsSinceCompaction' = 0
          /\ savedHot' = [exists |-> TRUE, nodes |-> hnswHot']
          /\ savedWarm' = [exists |-> TRUE, nodes |-> hnswWarm']
          /\ StoreCount(journalStore') < journalRotationSize]_vars

\* C33: after a memory check under critical pressure every record that was
\* HOT with usage_count < 5 is in the WARM store with an embedding of embedDim
\* components and has a live WARM node, and its HOT node is soft-deleted
C33_LowUsageDemoted ==
    [][(lastOp'.name = "checkMemoryPressure" /\ lastOp'.held /\ now' = now) =>
          \A h \in LiveHandles(hnswHot) :
              hnswHot[h].metadata.usage_count < 5 =>
                  /\ hnswHot'[h].deleted
                  /\ StoreHas(warmStore', hnswHot[h].metadata.id)
                  /\ warmStore'[hnswHot[h].metadata.id].embedding.len = embedDim
                  /\ NodesOf(hnswWarm', hnswHot[h].metadata.id) # {}]_vars

\* C34: a createMemoryRecord or a createMemoryRecords that raises
\* recordsSinceConsolidation to consolidationInterval or above leaves a
\* consolidation scheduled
C34_ConsolidationScheduled ==
    [][(lastOp'.name \in {"createMemoryRecord", "createMemoryRecords"}
        /\ recordsSinceConsolidation' > recordsSinceConsolidation
        /\ recordsSinceConsolidation' >= consolidationInterval) =>
          "consolidate" \in scheduled']_vars

\* C35: a search over live records completes: none fails because the
\* embedding of a candidate, of whatever tier, could not be obtained
C35_SearchCompletes == lastOp.name = "search" => lastOp.ok

\* C36: no record id has more than one live node in the HOT index or more
\* than one live node in the WARM index
C36_OneNodePerTier ==
    \A id \in 1..nextId :
        /\ Cardinality(NodesOf(hnswHot, id)) <= 1
        /\ Cardinality(NodesOf(hnswWarm, id)) <= 1

\* C37: with no operation in flight, every WARM-store record has a live WARM
\* node whose metadata has the record's usage_count, importance and cluster id
C37_WarmCopiesAgree ==
    \A id \in DOMAIN warmStore :
        \E n \in NodesOf(hnswWarm, id) :
            /\ n.node.metadata.usage_count = warmStore[id].usage_count
            /\ n.node.metadata.importance = warmStore[id].importance
            /\ n.node.metadata.semantic_cluster_id = warmStore[id].semantic_cluster_id

\* C38: when the periodic save completes after a mutation was tracked while
\* it was in flight, and the indexes it persisted lack that mutation,
\* mutationsSinceLastSave is still above 0
C38_NoMutationLost ==
    [][(lastOp'.name = "autoSave" /\ tasks # << >> /\ tasks' = << >>
        /\ mutationsSinceLastSave > tasks[1].before
        /\ (savedHot'.nodes # hnswHot' \/ savedWarm'.nodes # hnswWarm')) =>
          mutationsSinceLastSave' > 0]_vars

Holders(name) ==
    {i \in DOMAIN tasks : tasks[i].kind = name /\ tasks[i].pc \in {"embed", "running"}}

\* C40: a lock flag is set only while an operation that took it is in
\* progress, so all four are clear when none is, and a search that times out
\* waiting for the search lock leaves the flags as they are
C40_LocksReleased ==
    [][/\ \A name \in DOMAIN locks' : locks'[name] => Holders(name)' # {}
       /\ (\A i \in DOMAIN tasks' : tasks'[i] = Idle) => locks' = NoLocks
       /\ lastOp'.err = "LockTimeout" => locks' = locks]_vars

\* a search has timed out waiting while another search holds the lock and a
\* maintenance operation is in progress
C40_Witness ==
    /\ lastOp.err = "LockTimeout"
    /\ locks.search
    /\ Holders("search") # {}
    /\ \E name \in {"consolidate", "prune", "compact"} : locks[name]

\* C2: journal ids are put in strictly increasing order, no id twice
C2_JournalIdsIncrease ==
    \A i, j \in 1..Len(issued) : i < j => issued[i] < issued[j]

\* C5: a record that is visible in the WARM index or the WARM store has its
\* entry in the journal store
C5_JournaledBeforeWarm ==
    \A id \in WarmIndexIds(Eng) \cup DOMAIN warmStore : id \in JournaledIds(Eng)

\* C6: a search with fewer than 2k candidates has among them every record
\* whose journal entry was in the journal store when the search was called
C6_SearchSeesJournaled ==
    (lastOp.name = "search" /\ Len(lastOp.cands) < 2 * lastOp.k)
    => \A id \in lastOp.expect : \E n \in 1..Len(lastOp.cands) : lastOp.cands[n] = id

====
